---- MODULE Spec2Model ----
(***************************************************************************)
(* A model of monitorpy's check execution engine: the plugin registry and  *)
(* the single-check dispatcher (core/registry.py), the parallel and the    *)
(* batched runner (core/batch_runner.py) and the status logic of the DNS   *)
(* record plugin (plugins/dns_plugin.py).                                  *)
(***************************************************************************)
EXTENDS Integers, Sequences, FiniteSets, TLC

VARIABLES
    plugins,        \* PluginRegistry.plugins: name -> plugin class
    reg_exc,        \* the exception the last register call raised ("none" if none)
    dispatched,     \* the last call of the dispatcher run_check and its outcome,
                    \* or the call in progress (see InitDispatch)
    looked_up,      \* the last call of get_plugin, get_all_plugins or
                    \* get_plugin_names and its outcome
    check_configs,  \* run_checks_in_parallel: the descriptor list of the call
    max_workers,    \* run_checks_in_parallel: size of the thread pool
    timeout,        \* run_checks_in_parallel: "None" or "set"
    pc,             \* run_checks_in_parallel: position of the calling thread
    nsub,           \* index of the next descriptor the comprehension submits
    futures,        \* state and outcome of the future of each descriptor
    results,        \* the local list `results`
    asc_finished,   \* as_completed: finished futures not yet yielded
    asc_pending,    \* as_completed: its set `pending`
    exc,            \* the exception propagating out of the call ("none" if none)
    returned,       \* the value handed to the caller, once the call returned
    batch,          \* run_check_batch: the state of its call (see BatchIdle)
    dns,            \* DNSRecordPlugin: the state of a run_check or
                    \* _check_propagation call (see DnsIdle)
    cr,             \* a CheckResult from its construction through its
                    \* conversions (see CrIdle)
    probe,          \* a call of a built-in plugin's run_check (see ProbeIdle)
    tasks           \* calls of the two dispatchers running side by side, and
                    \* the plugin instances they constructed (see TasksIdle)

regVars == <<plugins, reg_exc, dispatched, looked_up>>

runnerVars == <<check_configs, max_workers, timeout, pc, nsub, futures, results,
                asc_finished, asc_pending, exc, returned>>

outsideRunner == <<regVars, batch, dns, cr, probe, tasks>>

vars == <<regVars, runnerVars, batch, dns, cr, probe, tasks>>

----------------------------------------------------------------------------
(* Bounds of the model.                                                    *)

MaxChecks == 2

MaxWorkers == 2

MaxBatchChecks == 3

MaxBatchSize == 2

MaxResolvers == 2

MaxTotal == 10

----------------------------------------------------------------------------
(* CheckResult (core/result.py).                                           *)

STATUS_SUCCESS == "success"

STATUS_WARNING == "warning"

STATUS_ERROR == "error"

VALID_STATUSES == {STATUS_SUCCESS, STATUS_WARNING, STATUS_ERROR}

\* raise type(msg)
Raise(type, msg) == [kind |-> "exception", exc |-> [type |-> type, msg |-> msg]]

\* A Python value whose type matters to the model: its type t, its text s
\* (for str, int and datetime) and its items (for list, tuple and dict; the
\* items of a dict are its key/value pairs).
PyValue(t, text, items) == [t |-> t, s |-> text, items |-> items]

PyNone == PyValue("none", "", <<>>)

PyStr(text) == PyValue("str", text, <<>>)

PyInt(digits) == PyValue("int", digits, <<>>)

PyDatetime(text) == PyValue("datetime", text, <<>>)

PyList(items) == PyValue("list", "", items)

PyTuple(items) == PyValue("tuple", "", items)

PyItem(key, value) == PyValue("item", "", <<key, value>>)

PyDict(items) == PyValue("dict", "", items)

\* bool(v) is False for a typed value: None, "" and the empty containers.
\* (A raw_data the model writes as a TLA+ record is a non-empty dict.)
Falsy(v) ==
    /\ "t" \in DOMAIN v
    /\ \/ v.t = "none"
       \/ v.t = "str" /\ v.s = ""
       \/ v.t \in {"list", "tuple", "dict"} /\ v.items = <<>>

\* A constructor that turns an unknown status into error.
CheckResult_Coerces(status, message, response_time, raw_data) ==
    [kind |-> "result",
     res  |-> [status |-> IF status \in VALID_STATUSES THEN status ELSE STATUS_ERROR,
               message |-> message, response_time |-> response_time,
               raw_data |-> IF Falsy(raw_data) THEN PyDict(<<>>) ELSE raw_data]]

\* CheckResult.__init__: a status outside VALID_STATUSES raises ValueError;
\* raw_data or {} is stored.  A message is the sequence of the pieces its
\* f-string joins.  (The timestamp of the object is kept where the object
\* is followed, see ConstructResult.)
CheckResult(status, message, response_time, raw_data) ==
    IF status \notin VALID_STATUSES
    THEN [kind |-> "exception",
          exc  |-> [type |-> "ValueError", msg |-> <<"Invalid status: ", status>>]]
    ELSE [kind |-> "result",
          res  |-> [status |-> status, message |-> message,
                    response_time |-> response_time,
                    raw_data |-> IF Falsy(raw_data) THEN PyDict(<<>>) ELSE raw_data]]

\* CheckResult.is_success, is_warning, is_error
is_success(res) == res.status = STATUS_SUCCESS

is_warning(res) == res.status = STATUS_WARNING

is_error(res) == res.status = STATUS_ERROR

\* CheckResult.to_dict of an object with the given timestamp: the timestamp
\* goes through isoformat(), a string.
to_dict(res, timestamp) ==
    [status |-> res.status, message |-> res.message,
     response_time |-> res.response_time, raw_data |-> res.raw_data,
     timestamp |-> PyStr(timestamp.s)]

----------------------------------------------------------------------------
(* json.dumps and json.loads, as the stored Result uses them               *)
(* (fastapi_api/models/result.py).  A JSON text is modelled by the value   *)
(* it denotes: null, a string, a number, an array or an object.            *)

RECURSIVE JsonSerializable(_)
JsonSerializable(v) ==
    CASE v.t \in {"none", "str", "int"} -> TRUE
      [] v.t \in {"list", "tuple"} ->
            \A k \in 1..Len(v.items) : JsonSerializable(v.items[k])
      [] v.t = "dict" ->
            \A k \in 1..Len(v.items) :
               /\ v.items[k].items[1].t \in {"none", "str", "int"}
               /\ JsonSerializable(v.items[k].items[2])
      [] OTHER -> FALSE

\* The JSON value json.dumps writes for a serializable value: lists and
\* tuples both become arrays, and every key of a dict becomes a string.
RECURSIVE JsonEncode(_)
JsonEncode(v) ==
    CASE v.t = "none" -> [j |-> "null", s |-> "", items |-> <<>>]
      [] v.t = "str"  -> [j |-> "string", s |-> v.s, items |-> <<>>]
      [] v.t = "int"  -> [j |-> "number", s |-> v.s, items |-> <<>>]
      [] v.t \in {"list", "tuple"} ->
            [j |-> "array", s |-> "",
             items |-> [k \in 1..Len(v.items) |-> JsonEncode(v.items[k])]]
      [] v.t = "dict" ->
            [j |-> "object", s |-> "",
             items |-> [k \in 1..Len(v.items) |->
                          [j |-> "member",
                           s |-> IF v.items[k].items[1].t = "none" THEN "null"
                                 ELSE v.items[k].items[1].s,
                           items |-> <<JsonEncode(v.items[k].items[2])>>]]]

\* json.dumps(v): the text, or TypeError for a value JSON cannot hold.
json_dumps(v) ==
    IF JsonSerializable(v)
    THEN [kind |-> "value", val |-> JsonEncode(v)]
    ELSE Raise("TypeError", <<"Object is not JSON serializable">>)

\* json.loads(text): arrays become lists, objects become dicts with string keys.
RECURSIVE json_loads(_)
json_loads(text) ==
    CASE text.j = "null"   -> PyNone
      [] text.j = "string" -> PyStr(text.s)
      [] text.j = "number" -> PyInt(text.s)
      [] text.j = "array"  ->
            PyList([k \in 1..Len(text.items) |-> json_loads(text.items[k])])
      [] text.j = "object" ->
            PyDict([k \in 1..Len(text.items) |->
                       PyItem(PyStr(text.items[k].s),
                              json_loads(text.items[k].items[1]))])

\* Result.from_check_result: the columns of the stored row; raw_data is the
\* JSON text of a non-empty raw_data and stays None otherwise.
from_check_result(res) ==
    IF Falsy(res.raw_data)
    THEN [kind |-> "value",
          val |-> [status |-> res.status, message |-> res.message,
                   response_time |-> res.response_time,
                   raw_data |-> [set |-> FALSE, text |-> JsonEncode(PyNone)]]]
    ELSE LET text == json_dumps(res.raw_data) IN
         IF text.kind = "exception" THEN text
         ELSE [kind |-> "value",
               val |-> [status |-> res.status, message |-> res.message,
                        response_time |-> res.response_time,
                        raw_data |-> [set |-> TRUE, text |-> text.val]]]

\* Result.get_raw_data
get_raw_data(row) ==
    IF row.raw_data.set THEN json_loads(row.raw_data.text) ELSE PyDict(<<>>)

\* Result.to_check_result
to_check_result(row) ==
    CheckResult(row.status, row.message, row.response_time, get_raw_data(row))

----------------------------------------------------------------------------
(* The plugin contract (core/plugin_base.py).  A plugin is opaque to the   *)
(* engine: what its constructor, validate_config and run_check do is the   *)
(* environment's choice, here decided by the configuration it is given.    *)

NoKey == "<absent>"

EmptyConfig == "{}"

Configs == {"ok_success", "ok_warning", "invalid", "ctor_raises",
            "validate_raises", "run_raises"}

PluginClasses == {"MockPlugin", "SamplePlugin"}

\* MonitorPlugin.__init__ (or a subclass's): returns normally or raises.
PluginInit(cls, config) ==
    IF config = "ctor_raises"
    THEN Raise("TypeError", <<"cannot construct ", cls>>)
    ELSE [kind |-> "instance", cls |-> cls, config |-> config]

\* MonitorPlugin.validate_config: True, False, or a fault.
validate_config(plugin) ==
    CASE plugin.config = "validate_raises" ->
            Raise("AttributeError", <<"validate_config failed">>)
      [] plugin.config \in {"invalid", EmptyConfig} ->
            [kind |-> "value", val |-> FALSE]
      [] OTHER -> [kind |-> "value", val |-> TRUE]

\* MonitorPlugin.run_check of a plugin: a CheckResult, or a fault.
plugin_run_check(plugin) ==
    CASE plugin.config = "run_raises" ->
            Raise("RuntimeError", <<"Test exception">>)
      [] plugin.config = "ok_warning" ->
            CheckResult(STATUS_WARNING, <<"Check degraded">>, 1, [cfg |-> plugin.config])
      [] OTHER ->
            CheckResult(STATUS_SUCCESS, <<"Check succeeded">>, 1, [cfg |-> plugin.config])

----------------------------------------------------------------------------
(* PluginRegistry (core/registry.py).                                      *)

\* A lookup by plain indexing: a missing name raises KeyError.
get_plugin_KeyError(name, config) ==
    IF name \notin DOMAIN plugins
    THEN Raise("KeyError", <<name>>)
    ELSE PluginInit(plugins[name], config)

\* PluginRegistry.get_plugin
get_plugin(name, config) ==
    IF name \notin DOMAIN plugins
    THEN Raise("ValueError", <<"Plugin '", name, "' not found in registry">>)
    ELSE PluginInit(plugins[name], config)

\* The except clause of run_check: the fault as an error CheckResult.
ExceptionResult(e) ==
    CheckResult(STATUS_ERROR, <<"Exception running check: ">> \o e.msg, 0,
                [error |-> e.msg, error_type |-> e.type])

\* The body of the dispatcher's try block.
TryRunCheck(plugin_name, config) ==
    LET plugin == get_plugin(plugin_name, config) IN
    IF plugin.kind = "exception" THEN plugin
    ELSE LET valid == validate_config(plugin) IN
         IF valid.kind = "exception" THEN valid
         ELSE IF ~valid.val
              THEN CheckResult(STATUS_ERROR,
                               <<"Invalid configuration for plugin ", plugin_name>>,
                               0, [config |-> config])
              ELSE plugin_run_check(plugin)

\* run_check with an except clause that catches the lookup's ValueError only.
run_check_CatchesValueErrorOnly(plugin_name, config) ==
    LET r == TryRunCheck(plugin_name, config) IN
    IF r.kind = "exception" /\ r.exc.type = "ValueError"
    THEN ExceptionResult(r.exc) ELSE r

\* registry.run_check(plugin_name, config)
run_check(plugin_name, config) ==
    LET r == TryRunCheck(plugin_name, config) IN
    IF r.kind = "exception" THEN ExceptionResult(r.exc) ELSE r

----------------------------------------------------------------------------
(* core/batch_runner.py                                                    *)

\* An except clause with the wording of the as_completed loop's.
SingleCheckExceptionResult_LoopWording(e) ==
    CheckResult(STATUS_ERROR, <<"Error executing check: ">> \o e.msg, 0,
                [error |-> e.msg, error_type |-> e.type])

\* The except clause of _run_single_check.
SingleCheckExceptionResult(e) ==
    CheckResult(STATUS_ERROR, <<"Exception running check: ">> \o e.msg, 0,
                [error |-> e.msg, error_type |-> e.type])

\* _run_single_check(plugin_type, config)
run_single_check(plugin_type, config) ==
    LET plugin == get_plugin(plugin_type, config) IN
    LET r == IF plugin.kind = "exception" THEN plugin
             ELSE LET valid == validate_config(plugin) IN
                  IF valid.kind = "exception" THEN valid
                  ELSE IF ~valid.val
                       THEN CheckResult(STATUS_ERROR,
                                <<"Invalid configuration for plugin ", plugin_type>>,
                                0, [config |-> config])
                       ELSE plugin_run_check(plugin)
    IN IF r.kind = "exception" THEN SingleCheckExceptionResult(r.exc) ELSE r

\* check.get("config", {})
ConfigOf(check) == IF check.config = NoKey THEN EmptyConfig ELSE check.config

\* The argument the worker's call receives for descriptor i.
TaskOutcome(i) ==
    run_single_check(check_configs[i].plugin_type, ConfigOf(check_configs[i]))

\* The descriptor looked up by the position at which the future completed.
CheckOf_ByArrival(i) == check_configs[Len(results) + 1]

\* future_to_check[future]
CheckOf(i) == check_configs[i]

\* The except clause of the as_completed loop: a fault of the future itself.
FutureErrorResult(e) ==
    CheckResult(STATUS_ERROR, <<"Error executing check: ">> \o e.msg, 0,
                [error |-> e.msg, error_type |-> e.type])

\* The pair the loop body appends for future i.
PairOf(i) ==
    LET o == futures[i].outcome IN
    [check  |-> CheckOf(i),
     result |-> IF o.kind = "exception" THEN FutureErrorResult(o.exc).res ELSE o.res]

N == Len(check_configs)

Submitted == {i \in 1..N : futures[i].state # "unsubmitted"}

Running == {i \in 1..N : futures[i].state = "running"}

Finished == {i \in 1..N : futures[i].state = "finished"}

NoOutcome == [kind |-> "none"]

\* The descriptors the model submits: (plugin_type, config) pairs, a key that
\* is absent from the dictionary being NoKey.
DescriptorKinds ==
    {<<"mock", "ok_success">>, <<"mock", "invalid">>, <<"mock", "ctor_raises">>,
     <<"mock", "validate_raises">>, <<"mock", "run_raises">>, <<"mock", NoKey>>,
     <<"nonexistent", "ok_success">>, <<NoKey, "ok_success">>}

Descriptor(i, k) == [id |-> i, plugin_type |-> k[1], config |-> k[2]]

DescriptorLists ==
    UNION {{[i \in 1..n |-> Descriptor(i, ks[i])] : ks \in [1..n -> DescriptorKinds]}
           : n \in 0..MaxChecks}

\* The registry after start-up: the plugin modules have registered themselves.
StartupRegistry == [n \in {"mock"} |-> "MockPlugin"]

\* The state in which run_checks_in_parallel(cs, w, t) has just been called.
CallRunner(cs, w, t) ==
    /\ check_configs = cs
    /\ max_workers = w
    /\ timeout = t
    /\ pc = "submit"
    /\ nsub = 1
    /\ futures = [i \in 1..Len(cs) |-> [state |-> "unsubmitted", outcome |-> NoOutcome]]
    /\ results = <<>>
    /\ asc_finished = {}
    /\ asc_pending = {}
    /\ exc = "none"
    /\ returned = <<>>

\* No call of the dispatcher has been made.
NoCall == [called |-> FALSE]

RegistryStarted ==
    /\ plugins = StartupRegistry
    /\ reg_exc = "none"
    /\ dispatched = NoCall
    /\ looked_up = NoCall

\* run_check_batch has not been called.
BatchIdle == [pc |-> "idle"]

\* No call of the DNS plugin is in progress.
DnsIdle == [pc |-> "idle"]

\* No CheckResult is being followed.
CrIdle == [pc |-> "idle"]

\* No built-in plugin is being called.
ProbeIdle == [pc |-> "idle"]

\* No call of a dispatcher is being followed step by step.
TasksIdle == [pc |-> "idle"]

PluginsIdle ==
    /\ cr = CrIdle
    /\ probe = ProbeIdle
    /\ tasks = TasksIdle

Init ==
    /\ PluginsIdle
    /\ RegistryStarted
    /\ batch = BatchIdle
    /\ dns = DnsIdle
    /\ \E cs \in DescriptorLists, w \in 1..MaxWorkers, t \in {"None", "set"} :
          CallRunner(cs, w, t)

\* executor.submit(_run_single_check, check["plugin_type"], check.get("config", {}))
\* for the next descriptor of the comprehension; a descriptor without
\* plugin_type raises KeyError, which leaves the with block.
Submit ==
    /\ pc = "submit"
    /\ nsub <= N
    /\ IF check_configs[nsub].plugin_type = NoKey
       THEN /\ exc' = "KeyError"
            /\ pc' = "shutdown"
            /\ UNCHANGED <<nsub, futures>>
       ELSE /\ futures' = [futures EXCEPT ![nsub].state = "pending"]
            /\ nsub' = nsub + 1
            /\ UNCHANGED <<exc, pc>>
    /\ UNCHANGED outsideRunner
    /\ UNCHANGED <<check_configs, max_workers, timeout, results,
                   asc_finished, asc_pending, returned>>

\* A pool whose workers each run one work item and take no other.
StartTask_OneEach(i) ==
    /\ futures[i].state = "pending"
    /\ i <= max_workers
    /\ Cardinality(Running) < max_workers
    /\ futures' = [futures EXCEPT ![i].state = "running"]
    /\ UNCHANGED outsideRunner
    /\ UNCHANGED <<check_configs, max_workers, timeout, pc, nsub, results,
                   asc_finished, asc_pending, exc, returned>>

\* A worker thread of the pool takes the oldest queued work item.
StartTask(i) ==
    /\ futures[i].state = "pending"
    /\ \A j \in 1..(i - 1) : futures[j].state # "pending"
    /\ Cardinality(Running) < max_workers
    /\ futures' = [futures EXCEPT ![i].state = "running"]
    /\ UNCHANGED outsideRunner
    /\ UNCHANGED <<check_configs, max_workers, timeout, pc, nsub, results,
                   asc_finished, asc_pending, exc, returned>>

\* The worker's call of _run_single_check returns and sets the future.
FinishTask(i) ==
    /\ futures[i].state = "running"
    /\ futures' = [futures EXCEPT ![i] = [state |-> "finished", outcome |-> TaskOutcome(i)]]
    /\ UNCHANGED outsideRunner
    /\ UNCHANGED <<check_configs, max_workers, timeout, pc, nsub, results,
                   asc_finished, asc_pending, exc, returned>>

\* The for loop calls as_completed(future_to_check, timeout): the futures that
\* are finished by now are yielded first, the others are pending.
BeginAsCompleted ==
    /\ pc = "submit"
    /\ nsub > N
    /\ asc_finished' = Finished
    /\ asc_pending' = (1..N) \ Finished
    /\ pc' = "iterate"
    /\ UNCHANGED outsideRunner
    /\ UNCHANGED <<check_configs, max_workers, timeout, nsub, futures,
                   results, exc, returned>>

\* as_completed yields future i and the loop body appends its pair.
YieldFuture(i) ==
    /\ pc = "iterate"
    /\ i \in asc_finished
    /\ results' = Append(results, PairOf(i))
    /\ asc_finished' = asc_finished \ {i}
    /\ asc_pending' = asc_pending \ {i}
    /\ UNCHANGED outsideRunner
    /\ UNCHANGED <<check_configs, max_workers, timeout, pc, nsub, futures,
                   exc, returned>>

\* as_completed's wait returns because pending futures have finished.
WaitFinished ==
    /\ pc = "iterate"
    /\ asc_finished = {}
    /\ asc_pending \cap Finished # {}
    /\ asc_finished' = asc_pending \cap Finished
    /\ UNCHANGED outsideRunner
    /\ UNCHANGED <<check_configs, max_workers, timeout, pc, nsub, futures,
                   results, asc_pending, exc, returned>>

\* as_completed finds its deadline passed with futures pending and raises
\* TimeoutError; nothing in run_checks_in_parallel catches it.
TimeoutExpires ==
    /\ pc = "iterate"
    /\ timeout # "None"
    /\ asc_finished = {}
    /\ asc_pending # {}
    /\ exc' = "TimeoutError"
    /\ pc' = "shutdown"
    /\ UNCHANGED outsideRunner
    /\ UNCHANGED <<check_configs, max_workers, timeout, nsub, futures,
                   results, asc_finished, asc_pending, returned>>

\* as_completed is exhausted: the for loop ends.
EndLoop ==
    /\ pc = "iterate"
    /\ asc_finished = {}
    /\ asc_pending = {}
    /\ pc' = "shutdown"
    /\ UNCHANGED outsideRunner
    /\ UNCHANGED <<check_configs, max_workers, timeout, nsub, futures,
                   results, asc_finished, asc_pending, exc, returned>>

\* A with block whose exit does not wait for the work items.
Shutdown_NoWait ==
    /\ pc = "shutdown"
    /\ IF exc = "none"
       THEN pc' = "returned" /\ returned' = results
       ELSE pc' = "raised" /\ UNCHANGED returned
    /\ UNCHANGED outsideRunner
    /\ UNCHANGED <<check_configs, max_workers, timeout, nsub, futures,
                   results, asc_finished, asc_pending, exc>>

\* The with block's exit, executor.shutdown(wait=True), returns once every
\* submitted work item has run; then the function returns `results`, or the
\* exception that left the block reaches the caller.
Shutdown ==
    /\ pc = "shutdown"
    /\ Submitted \subseteq Finished
    /\ IF exc = "none"
       THEN pc' = "returned" /\ returned' = results
       ELSE pc' = "raised" /\ UNCHANGED returned
    /\ UNCHANGED outsideRunner
    /\ UNCHANGED <<check_configs, max_workers, timeout, nsub, futures,
                   results, asc_finished, asc_pending, exc>>

Next ==
    \/ Submit
    \/ \E i \in 1..N : StartTask(i)
    \/ \E i \in 1..N : FinishTask(i)
    \/ BeginAsCompleted
    \/ \E i \in 1..N : YieldFuture(i)
    \/ WaitFinished
    \/ TimeoutExpires
    \/ EndLoop
    \/ Shutdown

Spec == Init /\ [][Next]_vars

\* The calling thread's own steps.
MainThread ==
    \/ Submit
    \/ BeginAsCompleted
    \/ \E i \in 1..N : YieldFuture(i)
    \/ WaitFinished
    \/ EndLoop
    \/ Shutdown

\* The runner under a fair scheduler: the calling thread and the idle
\* workers are not starved, and every check comes to an end.
SpecLive ==
    /\ Spec
    /\ WF_vars(MainThread)
    /\ WF_vars(\E i \in 1..N : StartTask(i))
    /\ WF_vars(\E i \in 1..N : FinishTask(i))

----------------------------------------------------------------------------
(* The registry and the dispatcher as operations (core/registry.py).       *)

RegistryNames == {"mock", "dns_record"}

\* A class that does not inherit from MonitorPlugin.
NotAPlugin == "object"

\* The runner is not in use.
RunnerIdle ==
    /\ check_configs = <<>>
    /\ max_workers = 1
    /\ timeout = "None"
    /\ pc = "idle"
    /\ nsub = 1
    /\ futures = <<>>
    /\ results = <<>>
    /\ asc_finished = {}
    /\ asc_pending = {}
    /\ exc = "none"
    /\ returned = <<>>

\* registry = PluginRegistry(): an empty table.
InitRegistry ==
    /\ PluginsIdle
    /\ plugins = <<>>
    /\ reg_exc = "none"
    /\ dispatched = NoCall
    /\ looked_up = NoCall
    /\ RunnerIdle
    /\ batch = BatchIdle
    /\ dns = DnsIdle

\* A register that rebinds a name already registered.
register_Overwrites(name, plugin_class) ==
    /\ IF plugin_class \notin PluginClasses
       THEN /\ reg_exc' = "TypeError"
            /\ UNCHANGED plugins
       ELSE /\ plugins' = [n \in DOMAIN plugins \cup {name} |->
                              IF n = name THEN plugin_class ELSE plugins[n]]
            /\ reg_exc' = "none"
    /\ UNCHANGED <<dispatched, looked_up, runnerVars, batch, dns, cr, probe, tasks>>

\* PluginRegistry.register(name, plugin_class)
register(name, plugin_class) ==
    /\ IF plugin_class \notin PluginClasses
       THEN /\ reg_exc' = "TypeError"
            /\ UNCHANGED plugins
       ELSE IF name \in DOMAIN plugins
       THEN /\ reg_exc' = "ValueError"
            /\ UNCHANGED plugins
       ELSE /\ plugins' = [n \in DOMAIN plugins \cup {name} |->
                              IF n = name THEN plugin_class ELSE plugins[n]]
            /\ reg_exc' = "none"
    /\ UNCHANGED <<dispatched, looked_up, runnerVars, batch, dns, cr, probe, tasks>>

\* A caller invokes run_check(plugin_name, config) and receives its outcome:
\* a CheckResult, or an exception that escaped the dispatcher.
CallRunCheck(plugin_name, config) ==
    /\ dispatched' = [called |-> TRUE, plugin_name |-> plugin_name,
                      config |-> config, table |-> plugins,
                      outcome |-> run_check(plugin_name, config)]
    /\ UNCHANGED <<plugins, reg_exc, looked_up, runnerVars, batch, dns, cr, probe, tasks>>

\* A get_plugin that takes the entry out of the table.
CallGetPlugin_Pops(name, config) ==
    /\ looked_up' = [called |-> TRUE, op |-> "get_plugin", plugin_name |-> name,
                     config |-> config, table |-> plugins,
                     outcome |-> get_plugin(name, config)]
    /\ plugins' = [n \in DOMAIN plugins \ {name} |-> plugins[n]]
    /\ UNCHANGED <<reg_exc, dispatched, runnerVars, batch, dns, cr, probe, tasks>>

\* A caller invokes registry.get_plugin(name, config) and receives the
\* instance, or the exception the lookup or the constructor raised.
CallGetPlugin(name, config) ==
    /\ looked_up' = [called |-> TRUE, op |-> "get_plugin", plugin_name |-> name,
                     config |-> config, table |-> plugins,
                     outcome |-> get_plugin(name, config)]
    /\ UNCHANGED <<plugins, reg_exc, dispatched, runnerVars, batch, dns, cr, probe, tasks>>

\* What get_all_plugins reports of a class: the values of its classmethods
\* get_description, get_required_config and get_optional_config.
ClassInfo(cls) ==
    [description |-> <<"doc of ", cls>>,
     required_config |-> <<"required_param">>,
     optional_config |-> <<"optional_param">>]

\* PluginRegistry.get_all_plugins
get_all_plugins == [n \in DOMAIN plugins |-> ClassInfo(plugins[n])]

\* PluginRegistry.get_plugin_names: the keys of the table (their order, the
\* order of registration, is not kept by the model).
get_plugin_names == DOMAIN plugins

CallGetAllPlugins ==
    /\ looked_up' = [called |-> TRUE, op |-> "get_all_plugins", plugin_name |-> NoKey,
                     config |-> NoKey, table |-> plugins,
                     outcome |-> [kind |-> "info", info |-> get_all_plugins]]
    /\ UNCHANGED <<plugins, reg_exc, dispatched, runnerVars, batch, dns, cr, probe, tasks>>

CallGetPluginNames ==
    /\ looked_up' = [called |-> TRUE, op |-> "get_plugin_names", plugin_name |-> NoKey,
                     config |-> NoKey, table |-> plugins,
                     outcome |-> [kind |-> "names", names |-> get_plugin_names]]
    /\ UNCHANGED <<plugins, reg_exc, dispatched, runnerVars, batch, dns, cr, probe, tasks>>

NextRegistry ==
    \/ \E name \in RegistryNames, cls \in PluginClasses \cup {NotAPlugin} :
          register(name, cls)
    \/ \E name \in RegistryNames \cup {"nonexistent"}, config \in Configs \cup {EmptyConfig} :
          CallRunCheck(name, config)
    \/ \E name \in RegistryNames \cup {"nonexistent"}, config \in {"ok_success", "ctor_raises"} :
          CallGetPlugin(name, config)
    \/ CallGetAllPlugins
    \/ CallGetPluginNames

SpecRegistry == InitRegistry /\ [][NextRegistry]_vars

----------------------------------------------------------------------------
(* The dispatcher run_check (core/registry.py), statement by statement.    *)

\* The tables the dispatcher is called on.
RegistryTables ==
    UNION {[names -> PluginClasses] : names \in SUBSET RegistryNames}

\* run_check(plugin_name, config) has been called and is about to enter its
\* try block; `invoked` lists the calls it has made so far.
InitDispatch ==
    /\ PluginsIdle
    /\ plugins \in RegistryTables
    /\ reg_exc = "none"
    /\ looked_up = NoCall
    /\ RunnerIdle
    /\ batch = BatchIdle
    /\ dns = DnsIdle
    /\ \E plugin_name \in RegistryNames \cup {"nonexistent"},
          config \in Configs \cup {EmptyConfig} :
          dispatched = [pc |-> "get_plugin", plugin_name |-> plugin_name,
                        config |-> config, plugin |-> NoOutcome,
                        raised |-> NoOutcome, invoked |-> <<>>,
                        outcome |-> NoOutcome]

dispatchOutside == <<plugins, reg_exc, looked_up, runnerVars, batch, dns, cr, probe, tasks>>

\* plugin = registry.get_plugin(plugin_name, config)
DispatchGetPlugin ==
    /\ dispatched.pc = "get_plugin"
    /\ LET plugin == get_plugin(dispatched.plugin_name, dispatched.config) IN
       dispatched' =
          IF plugin.kind = "exception"
          THEN [dispatched EXCEPT !.pc = "except", !.raised = plugin,
                                  !.invoked = Append(@, "get_plugin")]
          ELSE [dispatched EXCEPT !.pc = "validate_config", !.plugin = plugin,
                                  !.invoked = Append(@, "get_plugin")]
    /\ UNCHANGED dispatchOutside

\* A dispatcher that goes on to run_check whatever validate_config returns.
DispatchValidate_NoGate ==
    /\ dispatched.pc = "validate_config"
    /\ LET valid == validate_config(dispatched.plugin) IN
       dispatched' =
          IF valid.kind = "exception"
          THEN [dispatched EXCEPT !.pc = "except", !.raised = valid,
                                  !.invoked = Append(@, "validate_config")]
          ELSE [dispatched EXCEPT !.pc = "run_check",
                                  !.invoked = Append(@, "validate_config")]
    /\ UNCHANGED dispatchOutside

\* if not plugin.validate_config(): return CheckResult(STATUS_ERROR, ...)
DispatchValidate ==
    /\ dispatched.pc = "validate_config"
    /\ LET valid == validate_config(dispatched.plugin) IN
       dispatched' =
          IF valid.kind = "exception"
          THEN [dispatched EXCEPT !.pc = "except", !.raised = valid,
                                  !.invoked = Append(@, "validate_config")]
          ELSE IF ~valid.val
          THEN [dispatched EXCEPT
                   !.pc = "done",
                   !.invoked = Append(@, "validate_config"),
                   !.outcome = CheckResult(STATUS_ERROR,
                                  <<"Invalid configuration for plugin ",
                                    dispatched.plugin_name>>,
                                  0, [config |-> dispatched.config])]
          ELSE [dispatched EXCEPT !.pc = "run_check",
                                  !.invoked = Append(@, "validate_config")]
    /\ UNCHANGED dispatchOutside

\* return plugin.run_check()
DispatchRunCheck ==
    /\ dispatched.pc = "run_check"
    /\ LET r == plugin_run_check(dispatched.plugin) IN
       dispatched' =
          IF r.kind = "exception"
          THEN [dispatched EXCEPT !.pc = "except", !.raised = r,
                                  !.invoked = Append(@, "run_check")]
          ELSE [dispatched EXCEPT !.pc = "done", !.outcome = r,
                                  !.invoked = Append(@, "run_check")]
    /\ UNCHANGED dispatchOutside

\* except Exception as e: return CheckResult(STATUS_ERROR, ...)
DispatchExcept ==
    /\ dispatched.pc = "except"
    /\ dispatched' = [dispatched EXCEPT
                        !.pc = "done",
                        !.outcome = ExceptionResult(dispatched.raised.exc)]
    /\ UNCHANGED dispatchOutside

NextDispatch ==
    \/ DispatchGetPlugin
    \/ DispatchValidate
    \/ DispatchRunCheck
    \/ DispatchExcept

SpecDispatch == InitDispatch /\ [][NextDispatch]_vars

----------------------------------------------------------------------------
(* A CheckResult from its construction through its conversions.            *)

\* The statuses a caller may pass to the constructor.
StatusArgs == {"success", "warning", "error", "invalid_status", "SUCCESS", ""}

\* The raw_data arguments: None (omitted), {}, the dicts of the tests and of
\* the error results, the subjectAltName tuples and the TTL list the SSL and
\* the DNS plugin store, a dict with an integer key and one with a datetime.
RawDatas ==
    {PyNone,
     PyDict(<<>>),
     PyDict(<<PyItem(PyStr("key"), PyStr("value"))>>),
     PyDict(<<PyItem(PyStr("error"), PyStr("boom")),
              PyItem(PyStr("error_type"), PyStr("RuntimeError"))>>),
     PyDict(<<PyItem(PyStr("alternative_names"),
                     PyTuple(<<PyTuple(<<PyStr("DNS"), PyStr("example.com")>>)>>))>>),
     PyDict(<<PyItem(PyStr("ttl"), PyList(<<PyInt("300")>>))>>),
     PyDict(<<PyItem(PyInt("1"), PyStr("a"))>>),
     PyDict(<<PyItem(PyStr("checked_at"), PyDatetime("2024-01-01"))>>)}

\* The readings of datetime.now().
Clock == {PyDatetime("t1"), PyDatetime("t2")}

\* CheckResult(status, message, response_time, raw_data) is about to be called.
InitResult ==
    /\ RegistryStarted
    /\ RunnerIdle
    /\ batch = BatchIdle
    /\ dns = DnsIdle
    /\ probe = ProbeIdle
    /\ tasks = TasksIdle
    /\ \E status \in StatusArgs, message \in {<<"Test message">>, <<"">>},
          response_time \in {0, 1}, raw_data \in RawDatas :
          cr = [pc |-> "args",
                args |-> [status |-> status, message |-> message,
                          response_time |-> response_time, raw_data |-> raw_data],
                obj |-> NoOutcome, timestamp |-> PyNone, flags |-> NoOutcome,
                dict |-> NoOutcome, row |-> NoOutcome, back |-> NoOutcome]

crOutside == <<regVars, runnerVars, batch, dns, probe, tasks>>

\* The constructor runs: the object with its timestamp, or ValueError.
ConstructResult(now) ==
    /\ cr.pc = "args"
    /\ LET obj == CheckResult(cr.args.status, cr.args.message,
                              cr.args.response_time, cr.args.raw_data) IN
       cr' = IF obj.kind = "exception"
             THEN [cr EXCEPT !.pc = "raised", !.obj = obj]
             ELSE [cr EXCEPT !.pc = "constructed", !.obj = obj, !.timestamp = now]
    /\ UNCHANGED crOutside

\* is_success(), is_warning() and is_error() are called on the object.
StatusMethods ==
    /\ cr.pc = "constructed"
    /\ cr.flags = NoOutcome
    /\ cr' = [cr EXCEPT !.flags = [kind |-> "flags",
                                   is_success |-> is_success(cr.obj.res),
                                   is_warning |-> is_warning(cr.obj.res),
                                   is_error |-> is_error(cr.obj.res)]]
    /\ UNCHANGED crOutside

\* d = result.to_dict()
ToDict ==
    /\ cr.pc = "constructed"
    /\ cr' = [cr EXCEPT !.pc = "serialized",
                        !.dict = [kind |-> "value",
                                  val |-> to_dict(cr.obj.res, cr.timestamp)]]
    /\ UNCHANGED crOutside

\* CheckResult(d["status"], d["message"], d["response_time"], d["raw_data"])
Reconstruct ==
    /\ cr.pc = "serialized"
    /\ cr' = [cr EXCEPT !.pc = "rebuilt",
                        !.back = CheckResult(cr.dict.val.status, cr.dict.val.message,
                                             cr.dict.val.response_time,
                                             cr.dict.val.raw_data)]
    /\ UNCHANGED crOutside

\* row = Result.from_check_result(check_id, result)
FromCheckResult ==
    /\ cr.pc = "constructed"
    /\ LET row == from_check_result(cr.obj.res) IN
       cr' = [cr EXCEPT !.pc = IF row.kind = "exception" THEN "store_raised" ELSE "stored",
                        !.row = row]
    /\ UNCHANGED crOutside

\* row.to_check_result()
ToCheckResult ==
    /\ cr.pc = "stored"
    /\ cr' = [cr EXCEPT !.pc = "restored", !.back = to_check_result(cr.row.val)]
    /\ UNCHANGED crOutside

NextResult ==
    \/ \E now \in Clock : ConstructResult(now)
    \/ StatusMethods
    \/ ToDict
    \/ Reconstruct
    \/ FromCheckResult
    \/ ToCheckResult

SpecResult == InitResult /\ [][NextResult]_vars

----------------------------------------------------------------------------
(* run_check of the built-in plugins (plugins/website.py,                  *)
(* plugins/ssl_certificate.py, plugins/mail_server.py,                     *)
(* plugins/dns_plugin.py, PluginTemplate in core/plugin_base.py).          *)

BuiltinPlugins ==
    {"website_status", "ssl_certificate", "mail_server", "dns_record", "sample_monitor"}

\* The texts int() accepts among the port texts of the model.
DigitStrings == {"8443"}

\* The `hostname` values of an SSL check: a bare host name or a URL, with or
\* without a port after the host.
SslHostnames ==
    [scheme : {"", "https://"}, host : {"", "example.com"}, port : {"", "8443", "abc"}]

\* urlparse(hostname).netloc is not empty.
HasNetloc(hostname) == hostname.host # "" \/ hostname.port # ""

\* SSLCertificatePlugin.validate_config, the required key being present.
ssl_validate_config(hostname) ==
    hostname.scheme # "" => HasNetloc(hostname)

\* SSLCertificatePlugin.get_hostname_and_port: a port written in the URL is
\* converted with int(), which raises ValueError for a text with no number.
get_hostname_and_port(hostname) ==
    IF hostname.scheme # "" /\ hostname.port # ""
    THEN IF hostname.port \in DigitStrings
         THEN [kind |-> "value", val |-> <<hostname.host, hostname.port>>]
         ELSE Raise("ValueError", <<"invalid literal for int() with base 10: ",
                                    hostname.port>>)
    ELSE [kind |-> "value", val |-> <<hostname.host, "443">>]

\* What the probe's I/O does: it succeeds with a good, a degraded or a bad
\* finding, or it fails with a fault of the protocol library or another one.
ProbeEvents == {"success", "warning", "error", "fault_io", "fault_other"}

\* The fault a failing probe raises.
ProbeFault(event) ==
    IF event = "fault_io"
    THEN Raise("OSError", <<"connection refused">>)
    ELSE Raise("RuntimeError", <<"unexpected">>)

\* The error result a plugin's except clause builds from a fault.
FaultResult(plugin, e) ==
    CheckResult(STATUS_ERROR,
                <<CASE plugin = "dns_record" -> "Error checking DNS records: "
                    [] plugin = "sample_monitor" -> "Error during check: "
                    [] plugin \in {"website_status", "ssl_certificate"}
                          /\ e.type = "OSError" -> "Connection error: "
                    [] OTHER -> "Unexpected error: ">> \o e.msg,
                0, [error |-> e.msg, error_type |-> e.type])

\* A CheckResult object on the heap: its attributes as the constructor set
\* them and as they are now.
NewObject(result) == [made |-> result.res, now |-> result.res]

\* run_check() is called on an instance whose configuration validate_config
\* accepts.
InitProbe ==
    /\ RegistryStarted
    /\ RunnerIdle
    /\ batch = BatchIdle
    /\ dns = DnsIdle
    /\ cr = CrIdle
    /\ tasks = TasksIdle
    /\ \E plugin \in BuiltinPlugins, hostname \in SslHostnames :
          /\ plugin = "ssl_certificate" => ssl_validate_config(hostname)
          /\ plugin # "ssl_certificate" => hostname.scheme = "" /\ hostname.port = ""
                                            /\ hostname.host # ""
          /\ probe = [pc |-> "pre", plugin |-> plugin, hostname |-> hostname,
                      heap |-> <<>>, raised |-> NoOutcome, outcome |-> NoOutcome]

probeOutside == <<regVars, runnerVars, batch, dns, cr, tasks>>

\* The statements of run_check before its try block; those of the SSL
\* plugin call get_hostname_and_port.
ProbePreTry ==
    /\ probe.pc = "pre"
    /\ LET hp == IF probe.plugin = "ssl_certificate"
                 THEN get_hostname_and_port(probe.hostname)
                 ELSE [kind |-> "value", val |-> <<probe.hostname.host, "">>] IN
       probe' = IF hp.kind = "exception"
                THEN [probe EXCEPT !.pc = "raised", !.raised = hp]
                ELSE [probe EXCEPT !.pc = "try"]
    /\ UNCHANGED probeOutside

\* The try block: the probe's I/O and the result built from its finding.
\* The helpers of the mail plugin turn a fault of the protocol library into
\* an error result themselves.
ProbeTry(event) ==
    /\ probe.pc = "try"
    /\ LET after == IF probe.plugin = "mail_server" THEN "stamp" ELSE "return" IN
       probe' =
          IF event \in VALID_STATUSES
          THEN [probe EXCEPT
                   !.pc = after,
                   !.heap = Append(@, NewObject(
                               CheckResult(event, <<"finding: ", event>>, 1,
                                           [plugin |-> probe.plugin])))]
          ELSE IF probe.plugin = "mail_server" /\ event = "fault_io"
          THEN [probe EXCEPT
                   !.pc = after,
                   !.raised = ProbeFault(event),
                   !.heap = Append(@, NewObject(
                               CheckResult(STATUS_ERROR,
                                           <<"Connection error: ">> \o ProbeFault(event).exc.msg,
                                           0,
                                           [error |-> ProbeFault(event).exc.msg,
                                            error_type |-> ProbeFault(event).exc.type])))]
          ELSE [probe EXCEPT !.pc = "except", !.raised = ProbeFault(event)]
    /\ UNCHANGED probeOutside

\* MailServerPlugin.run_check: result.response_time = end_time - start_time
ProbeStamp(elapsed) ==
    /\ probe.pc = "stamp"
    /\ probe' = [probe EXCEPT !.pc = "return",
                              !.heap[Len(probe.heap)].now.response_time = elapsed]
    /\ UNCHANGED probeOutside

\* The except clause of run_check (of PluginTemplate: the isinstance branch).
ProbeExcept ==
    /\ probe.pc = "except"
    /\ probe' = [probe EXCEPT
                    !.pc = "return",
                    !.heap = Append(@, NewObject(FaultResult(probe.plugin,
                                                             probe.raised.exc)))]
    /\ UNCHANGED probeOutside

\* return result
ProbeReturn ==
    /\ probe.pc = "return"
    /\ probe' = [probe EXCEPT !.pc = "done",
                              !.outcome = [kind |-> "result",
                                           res |-> probe.heap[Len(probe.heap)].now]]
    /\ UNCHANGED probeOutside

NextProbe ==
    \/ ProbePreTry
    \/ \E event \in ProbeEvents : ProbeTry(event)
    \/ \E elapsed \in {1, 2} : ProbeStamp(elapsed)
    \/ ProbeExcept
    \/ ProbeReturn

SpecProbe == InitProbe /\ [][NextProbe]_vars

----------------------------------------------------------------------------
(* Calls of registry.run_check and of _run_single_check side by side, with  *)
(* the plugin instances they construct.                                    *)

\* The two dispatchers.
Dispatchers == {"run_check", "_run_single_check"}

\* The configurations the calls are made with.
TaskConfigs == {"ok_success", "invalid", "ctor_raises", "validate_raises", "run_raises"}

\* A call of dispatcher `via` that is about to enter its try block; `plugin`
\* is the position in the heap of the instance it holds (0: none) and
\* `calls` the methods it has called, each with the instance called.
NewTask(via, plugin_type, config) ==
    [via |-> via, plugin_type |-> plugin_type, config |-> config,
     pc |-> "get_plugin", plugin |-> 0, calls |-> <<>>,
     raised |-> NoOutcome, outcome |-> NoOutcome]

TaskSet ==
    {NewTask(via, plugin_type, config) :
        via \in Dispatchers, plugin_type \in {"mock", "nonexistent"},
        config \in TaskConfigs}

\* MaxChecks calls, as the workers of a batch or the threads of a caller
\* make them; the heap holds the plugin instances constructed so far.
InitTasks ==
    /\ cr = CrIdle
    /\ probe = ProbeIdle
    /\ RegistryStarted
    /\ RunnerIdle
    /\ batch = BatchIdle
    /\ dns = DnsIdle
    /\ \E t \in [1..MaxChecks -> TaskSet] :
          tasks = [pc |-> "running", heap |-> <<>>, t |-> t]

tasksOutside == <<regVars, runnerVars, batch, dns, cr, probe>>

\* A registry that hands out the instance it made before for the same class
\* and configuration.
TaskGetPlugin_Cached(i) ==
    /\ tasks.t[i].pc = "get_plugin"
    /\ LET made == get_plugin(tasks.t[i].plugin_type, tasks.t[i].config)
           same == {k \in 1..Len(tasks.heap) : tasks.heap[k] = made} IN
       tasks' =
          IF made.kind = "exception"
          THEN [tasks EXCEPT !.t[i].pc = "except", !.t[i].raised = made]
          ELSE IF same # {}
          THEN [tasks EXCEPT !.t[i].pc = "validate_config",
                             !.t[i].plugin = CHOOSE k \in same : TRUE]
          ELSE [tasks EXCEPT !.heap = Append(@, made),
                             !.t[i].pc = "validate_config",
                             !.t[i].plugin = Len(tasks.heap) + 1]
    /\ UNCHANGED tasksOutside

\* plugin = registry.get_plugin(plugin_type, config): the class is called and
\* the object it constructs is a new one.
TaskGetPlugin(i) ==
    /\ tasks.t[i].pc = "get_plugin"
    /\ LET made == get_plugin(tasks.t[i].plugin_type, tasks.t[i].config) IN
       tasks' =
          IF made.kind = "exception"
          THEN [tasks EXCEPT !.t[i].pc = "except", !.t[i].raised = made]
          ELSE [tasks EXCEPT !.heap = Append(@, made),
                             !.t[i].pc = "validate_config",
                             !.t[i].plugin = Len(tasks.heap) + 1]
    /\ UNCHANGED tasksOutside

\* if not plugin.validate_config(): return CheckResult(STATUS_ERROR, ...)
TaskValidate(i) ==
    /\ tasks.t[i].pc = "validate_config"
    /\ LET task == tasks.t[i]
           valid == validate_config(tasks.heap[task.plugin])
           calls == Append(task.calls, <<"validate_config", task.plugin>>) IN
       tasks' =
          IF valid.kind = "exception"
          THEN [tasks EXCEPT !.t[i].pc = "except", !.t[i].raised = valid,
                             !.t[i].calls = calls]
          ELSE IF ~valid.val
          THEN [tasks EXCEPT
                   !.t[i].pc = "done", !.t[i].calls = calls,
                   !.t[i].outcome =
                       CheckResult(STATUS_ERROR,
                           <<"Invalid configuration for plugin ", task.plugin_type>>,
                           0, [config |-> task.config])]
          ELSE [tasks EXCEPT !.t[i].pc = "run_check", !.t[i].calls = calls]
    /\ UNCHANGED tasksOutside

\* return plugin.run_check()
TaskRunCheck(i) ==
    /\ tasks.t[i].pc = "run_check"
    /\ LET task == tasks.t[i]
           r == plugin_run_check(tasks.heap[task.plugin])
           calls == Append(task.calls, <<"run_check", task.plugin>>) IN
       tasks' =
          IF r.kind = "exception"
          THEN [tasks EXCEPT !.t[i].pc = "except", !.t[i].raised = r,
                             !.t[i].calls = calls]
          ELSE [tasks EXCEPT !.t[i].pc = "done", !.t[i].outcome = r,
                             !.t[i].calls = calls]
    /\ UNCHANGED tasksOutside

\* except Exception as e: return CheckResult(STATUS_ERROR, ...), each
\* dispatcher with its own except clause.
TaskExcept(i) ==
    /\ tasks.t[i].pc = "except"
    /\ tasks' = [tasks EXCEPT
                   !.t[i].pc = "done",
                   !.t[i].outcome =
                       IF tasks.t[i].via = "run_check"
                       THEN ExceptionResult(tasks.t[i].raised.exc)
                       ELSE SingleCheckExceptionResult(tasks.t[i].raised.exc)]
    /\ UNCHANGED tasksOutside

NextTasks ==
    \/ \E i \in 1..MaxChecks : TaskGetPlugin(i)
    \/ \E i \in 1..MaxChecks : TaskValidate(i)
    \/ \E i \in 1..MaxChecks : TaskRunCheck(i)
    \/ \E i \in 1..MaxChecks : TaskExcept(i)

SpecTasks == InitTasks /\ [][NextTasks]_vars

----------------------------------------------------------------------------
(* run_check_batch (core/batch_runner.py).                                 *)

\* range(start, stop, step) for step >= 1, as a sequence.
RECURSIVE Range(_, _, _)
Range(start, stop, step) ==
    IF start >= stop THEN <<>> ELSE <<start>> \o Range(start + step, stop, step)

Min(a, b) == IF a <= b THEN a ELSE b

\* A slice that leaves out its last element.
Slice_OffByOne(cs, i, j) == SubSeq(cs, i + 1, Min(j, Len(cs)) - 1)

\* cs[i : j] for 0 <= i <= j
Slice(cs, i, j) == SubSeq(cs, i + 1, Min(j, Len(cs)))

\* batches = [check_configs[i : i + batch_size]
\*            for i in range(0, total_checks, batch_size)]
Batches(cs, batch_size) ==
    LET starts == Range(0, Len(cs), batch_size) IN
    [k \in 1..Len(starts) |-> Slice(cs, starts[k], starts[k] + batch_size)]

BatchDescriptorKinds ==
    {<<"mock", "ok_success">>, <<"mock", "run_raises">>, <<"nonexistent", "ok_success">>}

BatchDescriptorLists ==
    UNION {{[i \in 1..n |-> Descriptor(i, ks[i])] : ks \in [1..n -> BatchDescriptorKinds]}
           : n \in 0..MaxBatchChecks}

\* The state in which run_check_batch(cs, b, w, t) has computed its batches
\* and is about to enter its loop.
InitBatch ==
    /\ PluginsIdle
    /\ RegistryStarted
    /\ RunnerIdle
    /\ dns = DnsIdle
    /\ \E cs \in BatchDescriptorLists, b \in 1..MaxBatchSize,
          w \in 1..MaxWorkers, t \in {"None", "set"} :
          batch = [pc |-> "loop", configs |-> cs, batch_size |-> b,
                   max_workers |-> w, timeout |-> t,
                   batches |-> Batches(cs, b), i |-> 1,
                   results |-> <<>>, calls |-> <<>>]

\* The loop body calls run_checks_in_parallel(batch, max_workers, timeout).
BatchCall ==
    /\ batch.pc = "loop"
    /\ batch.i <= Len(batch.batches)
    /\ check_configs' = batch.batches[batch.i]
    /\ max_workers' = batch.max_workers
    /\ timeout' = batch.timeout
    /\ pc' = "submit"
    /\ nsub' = 1
    /\ futures' = [i \in 1..Len(batch.batches[batch.i]) |->
                      [state |-> "unsubmitted", outcome |-> NoOutcome]]
    /\ results' = <<>>
    /\ asc_finished' = {}
    /\ asc_pending' = {}
    /\ exc' = "none"
    /\ returned' = <<>>
    /\ batch' = [batch EXCEPT !.pc = "in_call",
                              !.calls = Append(@, batch.batches[batch.i])]
    /\ UNCHANGED <<regVars, dns, cr, probe, tasks>>

\* The call returned: results.extend(batch_results), and the loop goes on.
BatchExtend ==
    /\ batch.pc = "in_call"
    /\ pc = "returned"
    /\ batch' = [batch EXCEPT !.pc = "loop", !.i = @ + 1,
                              !.results = @ \o returned]
    /\ pc' = "idle"
    /\ UNCHANGED <<regVars, dns, cr, probe, tasks, check_configs, max_workers, timeout, nsub, futures,
                   results, asc_finished, asc_pending, exc, returned>>

\* The call raised: nothing in run_check_batch catches the exception.
BatchRaise ==
    /\ batch.pc = "in_call"
    /\ pc = "raised"
    /\ batch' = [batch EXCEPT !.pc = "raised"]
    /\ pc' = "idle"
    /\ UNCHANGED <<regVars, dns, cr, probe, tasks, check_configs, max_workers, timeout, nsub, futures,
                   results, asc_finished, asc_pending, exc, returned>>

\* The loop is over: return results.
BatchReturn ==
    /\ batch.pc = "loop"
    /\ batch.i > Len(batch.batches)
    /\ batch' = [batch EXCEPT !.pc = "returned"]
    /\ UNCHANGED <<regVars, runnerVars, dns, cr, probe, tasks>>

NextBatch ==
    \/ BatchCall
    \/ BatchExtend
    \/ BatchRaise
    \/ BatchReturn
    \/ Next

SpecBatch == InitBatch /\ [][NextBatch]_vars

----------------------------------------------------------------------------
(* DNSRecordPlugin (plugins/dns_plugin.py): the pure parts.                *)

\* DNSRecordPlugin._format_answers for record type A: str(rdata.address) of
\* each rdata of the answer, in the answer's order.
format_answers(answers) == [k \in 1..Len(answers) |-> answers[k].address]

InSeq(v, seq) == \E k \in 1..Len(seq) : seq[k] = v

\* An expected_value: absent (None), one string, or a list of strings.
NoExpected == [kind |-> "none", vals |-> <<>>]

\* `if expected_value:` -- None, "" and [] are all false.
Truthy(expected_value) ==
    /\ expected_value.kind # "none"
    /\ expected_value.vals # <<>>
    /\ (expected_value.kind = "str" => expected_value.vals[1] # "")

\* A match that is satisfied by any one of a list's values.
ExpectedMatch_Any(expected_value, answer_values) ==
    IF Truthy(expected_value)
    THEN \E k \in 1..Len(expected_value.vals) :
            InSeq(expected_value.vals[k], answer_values)
    ELSE TRUE

\* The match of answer_values against expected_value (dns_plugin.py:751-756,
\* 284-294): every value of a list, or the one string, is among the answers.
ExpectedMatch(expected_value, answer_values) ==
    IF Truthy(expected_value)
    THEN IF expected_value.kind = "list"
         THEN \A k \in 1..Len(expected_value.vals) :
                 InSeq(expected_value.vals[k], answer_values)
         ELSE InSeq(expected_value.vals[1], answer_values)
    ELSE TRUE

\* A query_resolver whose error entries count as matching when no value is
\* expected.
query_resolver_MatchOnError(resolver_info, response, expected_value) ==
    IF resolver_info.form = "str"
    THEN Raise("TypeError", <<"string indices must be integers">>)
    ELSE [kind |-> "value",
          val  |->
            IF response.kind = "answer"
            THEN [resolver |-> resolver_info.ip, status |-> "success",
                  error |-> "", records |-> format_answers(response.answers),
                  match |-> ExpectedMatch(expected_value,
                                          format_answers(response.answers))]
            ELSE [resolver |-> resolver_info.ip, status |-> "error",
                  error |-> response.kind, records |-> <<>>,
                  match |-> ~Truthy(expected_value)]]

\* query_resolver(resolver_info) when the resolver's reply is `response`: an
\* answer, NXDOMAIN, NoAnswer, Timeout or another fault.  A resolver given
\* as a plain string makes resolver_info["ip"] raise TypeError.
query_resolver(resolver_info, response, expected_value) ==
    IF resolver_info.form = "str"
    THEN Raise("TypeError", <<"string indices must be integers">>)
    ELSE [kind |-> "value",
          val  |->
            CASE response.kind = "answer" ->
                   [resolver |-> resolver_info.ip, status |-> "success",
                    error |-> "", records |-> format_answers(response.answers),
                    match |-> ExpectedMatch(expected_value,
                                            format_answers(response.answers))]
              [] response.kind \in {"NXDOMAIN", "NoAnswer", "Timeout"} ->
                   [resolver |-> resolver_info.ip, status |-> "error",
                    error |-> response.kind, records |-> <<>>, match |-> FALSE]
              [] OTHER ->
                   [resolver |-> resolver_info.ip, status |-> "error",
                    error |-> "connection failed", records |-> <<>>,
                    match |-> FALSE]]

\* sum(1 for r in results if r["status"] == "success")
SuccessfulCount(rs) == Cardinality({k \in 1..Len(rs) : rs[k].status = "success"})

\* sum(1 for r in results if r.get("match", False))
ConsistentCount(rs) == Cardinality({k \in 1..Len(rs) : rs[k].match})

\* percentage = (consistent / total * 100) if total > 0 else 0, as the
\* exact fraction num / den.
Percentage(consistent, total) ==
    IF total > 0 THEN [num |-> consistent * 100, den |-> total]
    ELSE [num |-> 0, den |-> 1]

\* A classification whose warning tier excludes its lower limit.
PropagationStatus_StrictWarning(percentage, threshold) ==
    IF percentage.num >= threshold * percentage.den THEN STATUS_SUCCESS
    ELSE IF 10 * percentage.num > 7 * threshold * percentage.den THEN STATUS_WARNING
    ELSE STATUS_ERROR

\* dns_plugin.py:854-862: percentage >= threshold is success,
\* percentage >= threshold * 0.7 is warning, anything else error.
PropagationStatus(percentage, threshold) ==
    IF percentage.num >= threshold * percentage.den THEN STATUS_SUCCESS
    ELSE IF 10 * percentage.num >= 7 * threshold * percentage.den THEN STATUS_WARNING
    ELSE STATUS_ERROR

\* round(percentage, 1), in tenths of a percent: to the nearest tenth, a tie
\* going to the even one.
RoundTenths(percentage) ==
    LET q == (percentage.num * 10) \div percentage.den
        r == (percentage.num * 10) % percentage.den IN
    IF 2 * r > percentage.den \/ (2 * r = percentage.den /\ q % 2 = 1)
    THEN q + 1 ELSE q

\* dns_plugin.py:844-873: the statistics and the dictionary returned.
PropagationResult(rs, propagation_threshold) ==
    LET total_resolvers == Len(rs)
        successful_resolvers == SuccessfulCount(rs)
        consistent_resolvers == ConsistentCount(rs)
        percentage == Percentage(consistent_resolvers, total_resolvers) IN
    [set |-> TRUE,
     status |-> PropagationStatus(percentage, propagation_threshold),
     total_count |-> total_resolvers,
     successful_count |-> successful_resolvers,
     consistent_count |-> consistent_resolvers,
     percentage |-> RoundTenths(percentage),
     threshold |-> propagation_threshold,
     resolvers |-> rs]

----------------------------------------------------------------------------
(* The classification of a percentage, applied to drawn inputs.            *)

InitClassify ==
    /\ PluginsIdle
    /\ RegistryStarted
    /\ RunnerIdle
    /\ batch = BatchIdle
    /\ \E total \in 0..MaxTotal, threshold \in 0..100 :
          \E consistent \in 0..total :
             dns = [pc |-> "classify", consistent |-> consistent, total |-> total,
                    threshold |-> threshold,
                    percentage |-> Percentage(consistent, total),
                    status |-> "unset"]

Classify ==
    /\ dns.pc = "classify"
    /\ dns' = [dns EXCEPT !.pc = "classified",
                          !.status = PropagationStatus(dns.percentage, dns.threshold)]
    /\ UNCHANGED <<regVars, runnerVars, batch, cr, probe, tasks>>

NextClassify == Classify

SpecClassify == InitClassify /\ [][NextClassify]_vars

----------------------------------------------------------------------------
(* DNSRecordPlugin: _check_propagation and run_check as processes.         *)

\* The replies a resolver can give to one query: an answer (a sequence of
\* A rdata), or one of the failures the code tells apart.
Responses ==
    {[kind |-> "answer", answers |-> a] :
        a \in {<<[address |-> "192.0.2.1"]>>,
               <<[address |-> "192.0.2.1"], [address |-> "192.0.2.2"]>>}}
    \cup {[kind |-> k, answers |-> <<>>] :
             k \in {"NXDOMAIN", "NoAnswer", "Timeout", "Exception"}}

ExpectedValues ==
    {NoExpected,
     [kind |-> "str", vals |-> <<"192.0.2.2">>],
     [kind |-> "list", vals |-> <<"192.0.2.1", "192.0.2.2">>]}

Thresholds == {0, 60}

\* The i-th entry of a configured resolver list: a plain IP string or a
\* resolver object; the first two entries name the same IP.
ResolverEntry(i, form) ==
    [form |-> form, ip |-> IF i <= 2 THEN "8.8.8.8" ELSE "1.1.1.1"]

\* The resolver lists: all strings or all objects, of every length up to
\* MaxResolvers, the two mixed lists of length two, and a list of two
\* resolver objects with different IPs.
ResolverLists ==
    {[i \in 1..n |-> ResolverEntry(i, f)] : n \in 0..MaxResolvers, f \in {"str", "dict"}}
    \cup {<<ResolverEntry(1, "str"), ResolverEntry(2, "dict")>>,
          <<ResolverEntry(1, "dict"), ResolverEntry(2, "str")>>,
          <<ResolverEntry(1, "dict"), ResolverEntry(3, "dict")>>}

\* dns_plugin.py:715-720: a list of plain IP strings becomes resolver objects.
ConvertResolvers(resolvers) ==
    IF \A k \in 1..Len(resolvers) : resolvers[k].form = "str"
    THEN [k \in 1..Len(resolvers) |-> [form |-> "dict", ip |-> resolvers[k].ip]]
    ELSE resolvers

NotSet == [set |-> FALSE]

DnsConfigs(flags, thresholds, lists) ==
    [expected_value : ExpectedValues,
     check_authoritative : flags, check_dnssec : flags, check_propagation : flags,
     propagation_threshold : thresholds, resolvers : lists,
     max_workers : 1..MaxWorkers]

\* The state of a DNS plugin instance with `config` at position `at`.
DnsCall(config, caller, at) ==
    [pc |-> at, caller |-> caller, config |-> config,
     answer_values |-> <<>>, authoritative_result |-> NotSet,
     dnssec_result |-> NotSet, propagation_result |-> NotSet,
     resolvers |-> <<>>, nsub |-> 1, queries |-> <<>>, collected |-> {},
     results |-> <<>>, exc |-> "none", trail |-> <<>>, result |-> NoOutcome]

\* The entry to _check_propagation: the resolver list is read and converted.
EnterPropagation(d) ==
    [d EXCEPT !.pc = "prop_submit",
              !.resolvers = ConvertResolvers(d.config.resolvers),
              !.nsub = 1,
              !.queries = [k \in 1..Len(d.config.resolvers) |->
                              [state |-> "unsubmitted", response |-> NoOutcome,
                               outcome |-> NoOutcome]],
              !.collected = {},
              !.results = <<>>]

\* _check_propagation called on a plugin instance.
InitProp ==
    /\ PluginsIdle
    /\ RegistryStarted
    /\ RunnerIdle
    /\ batch = BatchIdle
    /\ \E config \in DnsConfigs({TRUE}, Thresholds, ResolverLists) :
          dns = EnterPropagation(DnsCall(config, "direct", "prop_submit"))

dnsOutside == <<regVars, runnerVars, batch, cr, probe, tasks>>

\* executor.submit(query_resolver, resolver) for the next resolver.
PropSubmit ==
    /\ dns.pc = "prop_submit"
    /\ dns.nsub <= Len(dns.resolvers)
    /\ dns' = [dns EXCEPT !.queries[dns.nsub].state = "pending", !.nsub = @ + 1]
    /\ UNCHANGED dnsOutside

\* All queries are submitted: the as_completed loop begins.
PropBeginLoop ==
    /\ dns.pc = "prop_submit"
    /\ dns.nsub > Len(dns.resolvers)
    /\ dns' = [dns EXCEPT !.pc = "prop_collect"]
    /\ UNCHANGED dnsOutside

InFlight(d) == {k \in 1..Len(d.queries) : d.queries[k].state = "running"}

\* A pool that starts a queued query whatever the number of busy workers.
QueryStart_Unbounded(i) ==
    /\ dns.pc \in {"prop_submit", "prop_collect", "prop_shutdown"}
    /\ dns.queries[i].state = "pending"
    /\ \A j \in 1..(i - 1) : dns.queries[j].state # "pending"
    /\ dns' = [dns EXCEPT !.queries[i].state = "running"]
    /\ UNCHANGED dnsOutside

\* A worker of the propagation pool takes the oldest queued query.
QueryStart(i) ==
    /\ dns.pc \in {"prop_submit", "prop_collect", "prop_shutdown"}
    /\ dns.queries[i].state = "pending"
    /\ \A j \in 1..(i - 1) : dns.queries[j].state # "pending"
    /\ Cardinality(InFlight(dns)) < dns.config.max_workers
    /\ dns' = [dns EXCEPT !.queries[i].state = "running"]
    /\ UNCHANGED dnsOutside

\* The query of resolver i ends with the resolver's reply.
QueryFinish(i, response) ==
    /\ dns.pc \in {"prop_submit", "prop_collect", "prop_shutdown"}
    /\ dns.queries[i].state = "running"
    /\ dns' = [dns EXCEPT !.queries[i] =
                  [state |-> "finished", response |-> response,
                   outcome |-> query_resolver(dns.resolvers[i], response,
                                              dns.config.expected_value)]]
    /\ UNCHANGED dnsOutside

\* A loop that files every result under the first resolver of the list.
PropCollect_FirstResolver(i) ==
    /\ dns.pc = "prop_collect"
    /\ dns.queries[i].state = "finished"
    /\ i \notin dns.collected
    /\ LET o == dns.queries[i].outcome IN
       IF o.kind = "value"
       THEN dns' = [dns EXCEPT !.results = Append(@,
                                   [o.val EXCEPT !.resolver = dns.resolvers[1].ip]),
                               !.collected = @ \cup {i}]
       ELSE dns' = [dns EXCEPT !.pc = "prop_shutdown", !.exc = "TypeError"]
    /\ UNCHANGED dnsOutside

\* as_completed yields the future of resolver i: its result is appended, or,
\* if the future raised, an error entry built from resolver["ip"] -- which
\* itself raises TypeError for a resolver given as a plain string.
PropCollect(i) ==
    /\ dns.pc = "prop_collect"
    /\ dns.queries[i].state = "finished"
    /\ i \notin dns.collected
    /\ LET o == dns.queries[i].outcome IN
       IF o.kind = "value"
       THEN dns' = [dns EXCEPT !.results = Append(@, o.val),
                               !.collected = @ \cup {i}]
       ELSE IF dns.resolvers[i].form = "dict"
       THEN dns' = [dns EXCEPT !.results = Append(@,
                                   [resolver |-> dns.resolvers[i].ip,
                                    status |-> "error", error |-> "future failed",
                                    records |-> <<>>, match |-> FALSE]),
                               !.collected = @ \cup {i}]
       ELSE dns' = [dns EXCEPT !.pc = "prop_shutdown", !.exc = "TypeError"]
    /\ UNCHANGED dnsOutside

\* run_check's `except Exception` clause (dns_plugin.py:459-474).
DnsExceptionResult(type) ==
    CheckResult(STATUS_ERROR, <<"Error checking DNS records: ", type>>, 1,
                [error |-> type, error_type |-> type])

\* The loop is over: the with block ends and the statistics are returned.
PropReturn ==
    /\ dns.pc = "prop_collect"
    /\ dns.collected = 1..Len(dns.queries)
    /\ dns' = [dns EXCEPT
                 !.pc = IF dns.caller = "direct" THEN "prop_returned" ELSE "compose",
                 !.propagation_result =
                     PropagationResult(dns.results, dns.config.propagation_threshold)]
    /\ UNCHANGED dnsOutside

\* The TypeError leaves the with block once every query has run, and then
\* _check_propagation; run_check turns it into an error result.
PropRaise ==
    /\ dns.pc = "prop_shutdown"
    /\ \A k \in 1..Len(dns.queries) : dns.queries[k].state = "finished"
    /\ dns' = IF dns.caller = "direct"
              THEN [dns EXCEPT !.pc = "prop_raised"]
              ELSE [dns EXCEPT !.pc = "done",
                               !.result = DnsExceptionResult(dns.exc)]
    /\ UNCHANGED dnsOutside

NextProp ==
    \/ PropSubmit
    \/ PropBeginLoop
    \/ \E i \in 1..Len(dns.queries) : QueryStart(i)
    \/ \E i \in 1..Len(dns.queries), response \in Responses : QueryFinish(i, response)
    \/ \E i \in 1..Len(dns.queries) : PropCollect(i)
    \/ PropReturn
    \/ PropRaise

SpecProp == InitProp /\ [][NextProp]_vars

----------------------------------------------------------------------------
(* DNSRecordPlugin.run_check.                                              *)

\* The resolver lists run_check is exercised with.
DnsResolverLists ==
    {<<>>,
     <<ResolverEntry(1, "dict")>>,
     <<ResolverEntry(1, "str"), ResolverEntry(2, "str")>>,
     <<ResolverEntry(1, "str"), ResolverEntry(2, "dict")>>}

\* run_check called on a plugin instance whose configuration was accepted.
InitDns ==
    /\ PluginsIdle
    /\ RegistryStarted
    /\ RunnerIdle
    /\ batch = BatchIdle
    /\ \E config \in DnsConfigs(BOOLEAN, Thresholds, DnsResolverLists) :
          dns = DnsCall(config, "run_check", "lookup")

\* The results of the early-return handlers for NXDOMAIN, NoAnswer and Timeout.
LookupErrorResult(kind) ==
    CheckResult(STATUS_ERROR,
                CASE kind = "NXDOMAIN" -> <<"Domain ", "does not exist">>
                  [] kind = "NoAnswer" -> <<"No records found">>
                  [] OTHER             -> <<"Timeout resolving records">>,
                1, [error |-> kind])

\* A lookup whose failure is put aside and the sub-checks run all the same.
Lookup_GoesOn(response) ==
    /\ dns.pc = "lookup"
    /\ dns' = [dns EXCEPT !.pc = "authoritative",
                          !.answer_values = format_answers(response.answers)]
    /\ UNCHANGED dnsOutside

\* resolver.resolve(full_domain, record_type) and the formatting of its answer.
Lookup(response) ==
    /\ dns.pc = "lookup"
    /\ dns' = CASE response.kind = "answer" ->
                     [dns EXCEPT !.pc = "authoritative",
                                 !.answer_values = format_answers(response.answers)]
                [] response.kind \in {"NXDOMAIN", "NoAnswer", "Timeout"} ->
                     [dns EXCEPT !.pc = "done",
                                 !.result = LookupErrorResult(response.kind)]
                [] OTHER ->
                     [dns EXCEPT !.pc = "done",
                                 !.result = DnsExceptionResult("Exception")]
    /\ UNCHANGED dnsOutside

\* if check_authoritative: authoritative_result = self._check_authoritative(..)
CheckAuthoritative(is_authoritative) ==
    /\ dns.pc = "authoritative"
    /\ dns' = [dns EXCEPT
                 !.pc = "dnssec",
                 !.authoritative_result =
                     IF dns.config.check_authoritative
                     THEN [set |-> TRUE, is_authoritative |-> is_authoritative]
                     ELSE NotSet]
    /\ UNCHANGED dnsOutside

\* if check_dnssec: dnssec_result = self._check_dnssec(..)
CheckDnssec(is_valid) ==
    /\ dns.pc = "dnssec"
    /\ dns' = [dns EXCEPT
                 !.pc = "propagation",
                 !.dnssec_result =
                     IF dns.config.check_dnssec
                     THEN [set |-> TRUE, is_valid |-> is_valid]
                     ELSE NotSet]
    /\ UNCHANGED dnsOutside

\* if check_propagation: propagation_result = self._check_propagation(..)
CheckPropagation ==
    /\ dns.pc = "propagation"
    /\ dns' = IF dns.config.check_propagation
              THEN EnterPropagation(dns)
              ELSE [dns EXCEPT !.pc = "compose"]
    /\ UNCHANGED dnsOutside

\* A composition whose propagation block assigns its own status whenever
\* that is not success.
StatusTrail_PropagationOverrides(expected_value, expected_value_match, authoritative_result, dnssec_result, propagation_result) ==
    LET s0 == STATUS_SUCCESS
        s1 == IF Truthy(expected_value) /\ ~expected_value_match
              THEN STATUS_ERROR ELSE s0
        s2 == IF authoritative_result.set /\ ~authoritative_result.is_authoritative
              THEN STATUS_WARNING ELSE s1
        s3 == IF dnssec_result.set /\ ~dnssec_result.is_valid
              THEN STATUS_ERROR ELSE s2
        s4 == IF ~propagation_result.set THEN s3
              ELSE IF propagation_result.status # STATUS_SUCCESS
                   THEN propagation_result.status
              ELSE s3
    IN  <<s0, s1, s2, s3, s4>>

\* The overall status after each of the four blocks of lines 333-378, from
\* the initial STATUS_SUCCESS on.
StatusTrail(expected_value, expected_value_match, authoritative_result, dnssec_result, propagation_result) ==
    LET s0 == STATUS_SUCCESS
        s1 == IF Truthy(expected_value) /\ ~expected_value_match
              THEN STATUS_ERROR ELSE s0
        s2 == IF authoritative_result.set /\ ~authoritative_result.is_authoritative
              THEN STATUS_WARNING ELSE s1
        s3 == IF dnssec_result.set /\ ~dnssec_result.is_valid
              THEN STATUS_ERROR ELSE s2
        s4 == IF ~propagation_result.set THEN s3
              ELSE IF propagation_result.status = STATUS_ERROR THEN STATUS_ERROR
              ELSE IF propagation_result.status = STATUS_WARNING
                   THEN (IF s3 # STATUS_ERROR THEN STATUS_WARNING ELSE s3)
              ELSE s3
    IN  <<s0, s1, s2, s3, s4>>

\* message_parts, in the order the blocks append to it.
MessageParts(expected_value, expected_value_match, authoritative_result, dnssec_result, propagation_result) ==
    (IF Truthy(expected_value) /\ ~expected_value_match
     THEN <<"Expected value not found">> ELSE <<>>)
    \o (IF authoritative_result.set /\ ~authoritative_result.is_authoritative
        THEN <<"Non-authoritative response">> ELSE <<>>)
    \o (IF dnssec_result.set /\ ~dnssec_result.is_valid
        THEN <<"DNSSEC validation failed">> ELSE <<>>)
    \o (IF propagation_result.set /\ propagation_result.status = STATUS_ERROR
        THEN <<"Poor propagation">>
        ELSE IF propagation_result.set /\ propagation_result.status = STATUS_WARNING
        THEN <<"Partial propagation">> ELSE <<>>)

\* The message of the final result.
DnsMessage(status, expected_value, answer_values, message_parts) ==
    IF status = STATUS_SUCCESS
    THEN IF Truthy(expected_value)
         THEN IF expected_value.kind = "list"
              THEN <<"records contain all expected values">>
              ELSE <<"record matches expected value">>
         ELSE IF Len(answer_values) > 1
              THEN <<"records found">> ELSE <<"record found">>
    ELSE IF message_parts # <<>>
         THEN <<"record check has issues: ">> \o message_parts
         ELSE <<"record check failed">>

\* The expected-value match, the status composition and the final result.
Compose ==
    /\ dns.pc = "compose"
    /\ LET expected_value == dns.config.expected_value
           expected_value_match ==
               IF Truthy(expected_value)
               THEN ExpectedMatch(expected_value, dns.answer_values)
               ELSE TRUE
           trail == StatusTrail(expected_value, expected_value_match,
                                dns.authoritative_result, dns.dnssec_result,
                                dns.propagation_result)
           message_parts == MessageParts(expected_value, expected_value_match,
                                dns.authoritative_result, dns.dnssec_result,
                                dns.propagation_result)
           status == trail[Len(trail)]
       IN  dns' = [dns EXCEPT
                     !.pc = "done",
                     !.trail = trail,
                     !.result = CheckResult(status,
                                   DnsMessage(status, expected_value,
                                              dns.answer_values, message_parts),
                                   1,
                                   [records |-> dns.answer_values,
                                    expected_value |-> expected_value,
                                    expected_value_match |-> expected_value_match,
                                    authoritative |-> dns.authoritative_result,
                                    dnssec |-> dns.dnssec_result,
                                    propagation |-> dns.propagation_result])]
    /\ UNCHANGED dnsOutside

NextDns ==
    \/ \E response \in Responses : Lookup(response)
    \/ \E is_authoritative \in BOOLEAN : CheckAuthoritative(is_authoritative)
    \/ \E is_valid \in BOOLEAN : CheckDnssec(is_valid)
    \/ CheckPropagation
    \/ NextProp
    \/ Compose

SpecDns == InitDns /\ [][NextDns]_vars

----------------------------------------------------------------------------
(* Properties of run_checks_in_parallel.                                   *)

\* The call has handed control back to its caller.
Ended == pc \in {"returned", "raised"}

WellFormed == \A i \in 1..N : check_configs[i].plugin_type # NoKey

\* The number of pairs of the returned list that hold descriptor i.
Occurrences(i) ==
    Cardinality({k \in 1..Len(returned) : returned[k].check = check_configs[i]})

\* `piece` ends the message `m`.
EndsWith(m, piece) ==
    /\ Len(piece) <= Len(m)
    /\ SubSeq(m, Len(m) - Len(piece) + 1, Len(m)) = piece

HasTimeoutTag(r) ==
    /\ r.status = STATUS_ERROR
    /\ "error_type" \in DOMAIN r.raw_data
    /\ r.raw_data.error_type = "TimeoutError"

\* C1 (as claimed): whenever a call on well-formed descriptors has ended,
\* whether tasks raised or the batch timeout elapsed, it has returned a list
\* of exactly N pairs in which every input descriptor occurs exactly once.
C1_EveryDescriptorOnce ==
    (Ended /\ WellFormed) =>
        /\ pc = "returned"
        /\ Len(returned) = N
        /\ \A i \in 1..N : Occurrences(i) = 1

\* What the stages of a check of (name, config) do under the registry
\* `table`, told from the plugin's own operations: the fault the lookup, the
\* constructor, validate_config or run_check raises, or the value
\* validate_config or run_check comes to.
StageOutcome(table, name, config) ==
    IF name \notin DOMAIN table
    THEN Raise("ValueError", <<"Plugin '", name, "' not found in registry">>)
    ELSE LET p == PluginInit(table[name], config) IN
         IF p.kind = "exception" THEN p
         ELSE LET v == validate_config(p) IN
              IF v.kind = "exception" THEN v
              ELSE IF v.val THEN plugin_run_check(p) ELSE v

CheckFault(d) == StageOutcome(plugins, d.plugin_type, ConfigOf(d))

\* The pair (check, result) is what fault isolation asks for descriptor
\* check: an error naming the fault if its check raised, otherwise the
\* result its own plugin produced (an invalid configuration being reported
\* as an error about that plugin type).
IsolatedPair(pair) ==
    LET d == pair.check
        o == CheckFault(d) IN
    /\ \E i \in 1..N : check_configs[i] = d
    /\ CASE o.kind = "exception" ->
                /\ pair.result.status = STATUS_ERROR
                /\ EndsWith(pair.result.message, o.exc.msg)
         [] o.kind = "value" ->
                /\ pair.result.status = STATUS_ERROR
                /\ EndsWith(pair.result.message, <<d.plugin_type>>)
         [] OTHER -> pair.result = o.res

\* C2: a fault raised by the check of one descriptor stays with that
\* descriptor: every pair collected holds a descriptor with an error naming
\* its fault, or with the result its own check produced; a call that ends
\* without its deadline passing returns N pairs, one per descriptor; and the
\* only exceptions that leave the call are the runner's own TimeoutError and
\* KeyError, never a fault of a check.
C2_FaultIsolation ==
    /\ \A k \in 1..Len(results) : IsolatedPair(results[k])
    /\ (Ended /\ WellFormed /\ exc # "TimeoutError") =>
            /\ pc = "returned"
            /\ returned = results
            /\ Len(returned) = N
            /\ \A i \in 1..N : Occurrences(i) = 1
    /\ pc = "raised" => exc \in {"TimeoutError", "KeyError"}

\* C2 witness: a batch of two has returned in which the check of the first
\* descriptor raised inside run_check and the second, which succeeded,
\* completed first.
C2_Witness ==
    /\ pc = "returned"
    /\ N = 2
    /\ check_configs[1].config = "run_raises"
    /\ check_configs[2].config = "ok_success"
    /\ returned[1].check.id = 2
    /\ returned[1].result.status = STATUS_SUCCESS
    /\ returned[2].result.status = STATUS_ERROR

\* C4 (as claimed): when the timeout has elapsed the call returns normally
\* and every descriptor whose task had produced no result is in the output
\* with an error result tagged as a timeout.
C4_TimeoutAsData ==
    (Ended /\ exc = "TimeoutError") =>
        /\ pc = "returned"
        /\ \A i \in asc_pending :
              \E k \in 1..Len(returned) :
                 /\ returned[k].check = check_configs[i]
                 /\ HasTimeoutTag(returned[k].result)

\* C5 (as claimed): after a batch timeout every descriptor whose task was
\* collected before the deadline is in the output with the result its own
\* check returned.
C5_FinishedKeepResults ==
    (Ended /\ exc = "TimeoutError") =>
        \A k \in 1..Len(results) :
           \E j \in 1..Len(returned) : returned[j] = results[k]

\* C6 (as claimed): once the timeout has elapsed the runner does not wait
\* for the tasks still in flight: handing control back is possible at once.
C6_StopsWaiting ==
    (pc = "shutdown" /\ exc = "TimeoutError") => ENABLED Shutdown

----------------------------------------------------------------------------
(* Properties of the dispatcher.                                           *)

\* C3: no fault escapes run_check: whatever the call's plugin type and
\* config, the caller receives a CheckResult, and when the lookup, the
\* constructor, validate_config or the plugin's run_check raised, that
\* result has status error, a message ending in the fault's description and
\* raw_data holding the description and the fault's type.
C3_DispatcherContainsFaults ==
    dispatched.called =>
        LET o == StageOutcome(dispatched.table, dispatched.plugin_name,
                              dispatched.config) IN
        /\ dispatched.outcome.kind = "result"
        /\ o.kind = "exception" =>
              /\ dispatched.outcome.res.status = STATUS_ERROR
              /\ EndsWith(dispatched.outcome.res.message, o.exc.msg)
              /\ dispatched.outcome.res.raw_data =
                    [error |-> o.exc.msg, error_type |-> o.exc.type]

\* C3 witness: run_check was called for a registered plugin whose run_check
\* raised, and the caller holds an error result.
C3_Witness ==
    /\ dispatched.called
    /\ dispatched.plugin_name \in DOMAIN dispatched.table
    /\ dispatched.config = "run_raises"
    /\ dispatched.outcome.kind = "result"
    /\ dispatched.outcome.res.status = STATUS_ERROR

----------------------------------------------------------------------------
(* Properties of run_check_batch.                                          *)

\* ceil(n / b)
CeilDiv(n, b) == (n + b - 1) \div b

\* The chunk, counted from 0, of the descriptor at position id of the input.
ChunkOf(id) == (id - 1) \div batch.batch_size

\* C7: the k-th call of run_checks_in_parallel (k from 1) receives the
\* descriptors at positions (k-1)*b+1 .. min(k*b, N) of the input, in input
\* order; and when run_check_batch returns it has made exactly ceil(N/b)
\* calls and returns exactly N pairs, one per descriptor, all pairs of a
\* chunk before all pairs of the next chunk.
C7_ChunkedCalls ==
    batch.pc # "idle" =>
        LET n == Len(batch.configs)
            b == batch.batch_size IN
        /\ \A k \in 1..Len(batch.calls) :
              batch.calls[k] =
                 [j \in 1..(Min(k * b, n) - (k - 1) * b) |-> batch.configs[(k - 1) * b + j]]
        /\ batch.pc = "returned" =>
              /\ Len(batch.calls) = CeilDiv(n, b)
              /\ Len(batch.results) = n
              /\ \A i \in 1..n :
                    Cardinality({q \in 1..n : batch.results[q].check = batch.configs[i]}) = 1
              /\ \A q1, q2 \in 1..n :
                    q1 < q2 => ChunkOf(batch.results[q1].check.id)
                                  <= ChunkOf(batch.results[q2].check.id)

\* C7 witness: run_check_batch has returned for three descriptors and batch
\* size two, after two calls, the last chunk being the smaller one.
C7_Witness ==
    /\ batch.pc = "returned"
    /\ Len(batch.configs) = 3
    /\ batch.batch_size = 2
    /\ Len(batch.calls) = 2
    /\ Len(batch.calls[2]) = 1
    /\ Len(batch.results) = 3

----------------------------------------------------------------------------
(* Properties of the DNS propagation check.                                *)

\* C9: with p the percentage consistent / total * 100 (0 for an empty
\* list) and t the threshold, the status is success iff p >= t, warning iff
\* 0.7 * t <= p < t and error iff p < 0.7 * t; so 8 of 10 is success for
\* t = 80 and warning for t = 90, and 4 of 10 is error for t = 80.
C9_ThreeTiers ==
    dns.pc = "classified" =>
        LET c == dns.consistent
            n == dns.total
            t == dns.threshold
            \* p >= t and p >= 0.7 * t, cleared of their denominators
            geT  == IF n > 0 THEN 100 * c >= t * n ELSE 0 >= t
            ge7T == IF n > 0 THEN 1000 * c >= 7 * t * n ELSE 0 >= 7 * t IN
        /\ dns.status \in VALID_STATUSES
        /\ dns.status = STATUS_SUCCESS <=> geT
        /\ dns.status = STATUS_WARNING <=> (ge7T /\ ~geT)
        /\ dns.status = STATUS_ERROR <=> ~ge7T
        /\ (c = 8 /\ n = 10 /\ t = 80) => dns.status = STATUS_SUCCESS
        /\ (c = 8 /\ n = 10 /\ t = 90) => dns.status = STATUS_WARNING
        /\ (c = 4 /\ n = 10 /\ t = 80) => dns.status = STATUS_ERROR

\* C9 witness: 7 of 10 consistent classified against threshold 100, the
\* lower limit of the warning tier.
C9_Witness ==
    /\ dns.pc = "classified"
    /\ dns.consistent = 7
    /\ dns.total = 10
    /\ dns.threshold = 100
    /\ dns.status = STATUS_WARNING

----------------------------------------------------------------------------
(* Properties of DNSRecordPlugin.run_check and _check_propagation.         *)

Rank(status) ==
    CASE status = STATUS_SUCCESS -> 0
      [] status = STATUS_WARNING -> 1
      [] status = STATUS_ERROR   -> 2

\* The ranks of the statuses the sub-checks of a composed result demanded:
\* error for a missing expected value and for a failed DNSSEC validation,
\* warning for a non-authoritative response, and the propagation status.
DemandedRanks(raw_data) ==
    {0}
    \cup (IF ~raw_data.expected_value_match THEN {2} ELSE {})
    \cup (IF raw_data.authoritative.set /\ ~raw_data.authoritative.is_authoritative
          THEN {1} ELSE {})
    \cup (IF raw_data.dnssec.set /\ ~raw_data.dnssec.is_valid THEN {2} ELSE {})
    \cup (IF raw_data.propagation.set
          THEN {Rank(raw_data.propagation.status)} ELSE {})

\* C8: in DNSRecordPlugin.run_check the aggregate status never improves from
\* one sub-check to the next (success < warning < error), and the final status
\* is the worst status any sub-check demanded.
C8_NonDowngrade ==
    (dns.pc = "done" /\ dns.trail # <<>>) =>
        /\ \A k \in 1..(Len(dns.trail) - 1) :
              Rank(dns.trail[k + 1]) >= Rank(dns.trail[k])
        /\ \A r \in DemandedRanks(dns.result.res.raw_data) :
              Rank(dns.result.res.status) >= r
        /\ Rank(dns.result.res.status) \in DemandedRanks(dns.result.res.raw_data)

\* The resolvers of the call whose query ended with a value satisfying the
\* test: status success (what = "success") or match true (what = "match").
QueriesWith(what) ==
    {k \in 1..Len(dns.queries) :
        /\ dns.queries[k].outcome.kind = "value"
        /\ IF what = "success"
           THEN dns.queries[k].outcome.val.status = "success"
           ELSE dns.queries[k].outcome.val.match}

\* C10: for every configured resolver list and every completion order,
\* _check_propagation reports total_count = the length of the list,
\* successful_count = the number of successful queries, consistent_count =
\* the number of matching ones and percentage = consistent_count /
\* total_count * 100 (0 for the empty list, which is an error unless the
\* threshold is 0).
C10_Aggregation ==
    (dns.caller = "direct" /\ dns.pc \in {"prop_returned", "prop_raised"}) =>
        /\ dns.pc = "prop_returned"
        /\ LET r == dns.propagation_result
               n == Len(dns.config.resolvers) IN
           /\ r.total_count = n
           /\ r.successful_count = Cardinality(QueriesWith("success"))
           /\ r.consistent_count = Cardinality(QueriesWith("match"))
           /\ r.percentage * n = r.consistent_count * 1000
           /\ (n = 0 => /\ r.percentage = 0
                        /\ (r.status = STATUS_ERROR <=> dns.config.propagation_threshold # 0))

\* The addresses of the rdata of a resolver's answer.
AnswerSet(response) == {response.answers[k].address : k \in 1..Len(response.answers)}

\* The values an expected_value asks for.
ExpectedSet(expected_value) ==
    {expected_value.vals[k] : k \in 1..Len(expected_value.vals)}

\* The finished queries of resolvers given as resolver objects.
FinishedQueries ==
    {k \in 1..Len(dns.queries) :
        dns.queries[k].state = "finished" /\ dns.resolvers[k].form = "dict"}

\* C11: a resolver whose query succeeded is recorded with status success and,
\* an expected value being given, match true iff its answer set contains the
\* expected value (all of them for a list); a resolver whose query ended in
\* NXDOMAIN, NoAnswer, a timeout or another failure is recorded with status
\* error and match false.
C11_MatchRule ==
    \A k \in FinishedQueries :
        LET q == dns.queries[k] IN
        /\ q.outcome.kind = "value"
        /\ q.outcome.val.resolver = dns.resolvers[k].ip
        /\ IF q.response.kind = "answer"
           THEN /\ q.outcome.val.status = "success"
                /\ Truthy(dns.config.expected_value) =>
                      (q.outcome.val.match <=>
                          ExpectedSet(dns.config.expected_value) \subseteq AnswerSet(q.response))
           ELSE /\ q.outcome.val.status = "error"
                /\ ~q.outcome.val.match

\* A successful resolver that lacks one of two expected values, and a resolver
\* that failed, are both on record.
C11_Witness ==
    /\ dns.config.expected_value.kind = "list"
    /\ \E k \in FinishedQueries :
          /\ dns.queries[k].response.kind = "answer"
          /\ ~dns.queries[k].outcome.val.match
    /\ \E k \in FinishedQueries : dns.queries[k].response.kind = "Timeout"

----------------------------------------------------------------------------
(* Properties of the registry.                                             *)

\* C12: register(name, cls2) for a name already registered raises ValueError
\* to its caller and leaves the table as it was, so that get_plugin(name,
\* config) afterwards still constructs the class registered first.
C12_DuplicateRejected ==
    [][\A name \in RegistryNames, cls2 \in PluginClasses :
          (name \in DOMAIN plugins /\ register(name, cls2)) =>
              /\ reg_exc' = "ValueError"
              /\ plugins' = plugins
              /\ \A config \in Configs :
                    get_plugin(name, config)' = PluginInit(plugins[name], config)]_vars

\* A duplicate registration was rejected and get_plugin, called on the table
\* as it is now, constructed the registered class.
C12_Witness ==
    /\ reg_exc = "ValueError"
    /\ looked_up.called
    /\ looked_up.op = "get_plugin"
    /\ looked_up.table = plugins
    /\ looked_up.outcome.kind = "instance"
    /\ looked_up.outcome.cls = plugins[looked_up.plugin_name]

\* C13: the registry only grows: whatever operation is performed -- register,
\* get_plugin, get_all_plugins, get_plugin_names or run_check, succeeding or
\* failing -- every registered name stays registered with the same class.
C13_RegistryOnlyGrows ==
    [][\A n \in DOMAIN plugins :
          n \in DOMAIN plugins' /\ plugins'[n] = plugins[n]]_vars

\* Two names are registered, a registration has failed, and both the
\* dispatcher (with an error result) and get_all_plugins have been called.
C13_Witness ==
    /\ Cardinality(DOMAIN plugins) = 2
    /\ reg_exc = "TypeError"
    /\ dispatched.called
    /\ dispatched.outcome.res.status = STATUS_ERROR
    /\ looked_up.called
    /\ looked_up.op = "get_all_plugins"
    /\ DOMAIN looked_up.outcome.info = DOMAIN plugins

\* The message contains the piece.
Mentions(message, piece) == \E k \in 1..Len(message) : message[k] = piece

\* C14: for a plugin type that is not registered, run_check returns a
\* CheckResult with status error whose message mentions "not found", and
\* PluginRegistry.get_plugin raises ValueError.
C14_NotFound ==
    /\ (dispatched.called /\ dispatched.plugin_name \notin DOMAIN dispatched.table) =>
          /\ dispatched.outcome.kind = "result"
          /\ dispatched.outcome.res.status = STATUS_ERROR
          /\ Mentions(dispatched.outcome.res.message, "' not found in registry")
    /\ (looked_up.called /\ looked_up.op = "get_plugin"
           /\ looked_up.plugin_name \notin DOMAIN looked_up.table) =>
          /\ looked_up.outcome.kind = "exception"
          /\ looked_up.outcome.exc.type = "ValueError"

\* Both run_check and get_plugin were called for a name that is not registered.
C14_Witness ==
    /\ dispatched.called
    /\ dispatched.plugin_name = "nonexistent"
    /\ dispatched.outcome.res.status = STATUS_ERROR
    /\ looked_up.called
    /\ looked_up.op = "get_plugin"
    /\ looked_up.plugin_name = "nonexistent"
    /\ looked_up.outcome.kind = "exception"

----------------------------------------------------------------------------
(* Properties of the dispatcher's statements.                              *)

\* The plugin of the call has been constructed and its validate_config
\* returns `b`.
ValidateReturns(b) ==
    /\ dispatched.plugin.kind = "instance"
    /\ validate_config(dispatched.plugin) = [kind |-> "value", val |-> b]

\* C15: validation gates execution: when validate_config returns false the
\* dispatcher returns an error result saying the configuration is invalid
\* for the plugin type and never invokes the plugin's run_check; when it
\* returns true and the plugin's run_check returns a result, the dispatcher
\* returns that very result.
C15_ValidationGates ==
    /\ Mentions(dispatched.invoked, "run_check") => ValidateReturns(TRUE)
    /\ (dispatched.pc = "done" /\ ValidateReturns(FALSE)) =>
          /\ dispatched.outcome.kind = "result"
          /\ dispatched.outcome.res.status = STATUS_ERROR
          /\ dispatched.outcome.res.message =
                <<"Invalid configuration for plugin ", dispatched.plugin_name>>
          /\ dispatched.invoked = <<"get_plugin", "validate_config">>
    /\ (dispatched.pc = "done" /\ ValidateReturns(TRUE)
           /\ plugin_run_check(dispatched.plugin).kind = "result") =>
          dispatched.outcome = plugin_run_check(dispatched.plugin)
    /\ dispatched.pc = "done" =>
          dispatched.outcome = run_check(dispatched.plugin_name, dispatched.config)

\* A call whose plugin rejected its configuration has returned.
C15_Witness ==
    /\ dispatched.pc = "done"
    /\ dispatched.config = "invalid"
    /\ ValidateReturns(FALSE)
    /\ dispatched.outcome.res.status = STATUS_ERROR

----------------------------------------------------------------------------
(* Properties of CheckResult.                                              *)

\* C16: the status of a CheckResult is a closed enumeration: the constructor
\* accepts success, warning and error and keeps the status it was given, it
\* raises ValueError for any other status, and exactly one of is_success,
\* is_warning and is_error holds of a constructed result.
C16_ClosedStatus ==
    /\ cr.pc # "args" =>
          IF cr.args.status \in {"success", "warning", "error"}
          THEN /\ cr.pc # "raised"
               /\ cr.obj.kind = "result"
               /\ cr.obj.res.status = cr.args.status
          ELSE /\ cr.pc = "raised"
               /\ cr.obj.kind = "exception"
               /\ cr.obj.exc.type = "ValueError"
    /\ cr.flags # NoOutcome =>
          Cardinality({f \in {"is_success", "is_warning", "is_error"} : cr.flags[f]}) = 1
    /\ cr.back # NoOutcome =>
          /\ cr.back.kind = "result"
          /\ cr.back.res.status \in {"success", "warning", "error"}

\* The constructor has rejected a status that differs from a valid one by
\* its case only.
C16_Witness ==
    /\ cr.pc = "raised"
    /\ cr.args.status = "SUCCESS"

\* C18: taking to_dict of a CheckResult and reconstructing it, and likewise
\* storing it with from_check_result and reading it back with
\* to_check_result, yields the same status, message, response_time and
\* raw_data, whatever these are.
C18_RoundTrip ==
    /\ cr.pc = "rebuilt" => cr.back = cr.obj
    /\ cr.pc \in {"stored", "store_raised", "restored"} => cr.pc # "store_raised"
    /\ cr.pc = "restored" => cr.back = cr.obj

----------------------------------------------------------------------------
(* Properties of the built-in plugins.                                     *)

\* C17: a CheckResult is immutable after construction: every result object
\* keeps the status, message, response_time and raw_data its constructor
\* set.
C17_Immutable ==
    \A k \in 1..Len(probe.heap) : probe.heap[k].now = probe.heap[k].made

\* C19: run_check of a built-in plugin never raises for a configuration its
\* validate_config accepts: it returns a CheckResult, and a fault inside it
\* becomes an error result with the fault's description and type in raw_data.
C19_NeverRaises ==
    /\ probe.pc # "raised"
    /\ probe.pc = "done" =>
          /\ probe.outcome.res.status \in VALID_STATUSES
          /\ probe.raised # NoOutcome =>
                /\ probe.outcome.res.status = STATUS_ERROR
                /\ probe.outcome.res.raw_data.error = probe.raised.exc.msg
                /\ probe.outcome.res.raw_data.error_type = probe.raised.exc.type


\* The descriptors that lack plugin_type or lack config.
Malformed ==
    {i \in 1..N : \/ check_configs[i].plugin_type = NoKey
                  \/ check_configs[i].config = NoKey}

\* C20 (as claimed): a call given a descriptor that lacks plugin_type or
\* config, and not cut short by the batch timeout, returns normally, pairs
\* each such descriptor with an error result, and returns every other
\* descriptor of the batch as well.
C20_MalformedAsData ==
    (Ended /\ Malformed # {} /\ exc # "TimeoutError") =>
        /\ pc = "returned"
        /\ \A i \in 1..N : Occurrences(i) = 1
        /\ \A i \in Malformed :
              \A k \in 1..Len(returned) :
                 returned[k].check = check_configs[i] =>
                    returned[k].result.status = STATUS_ERROR


----------------------------------------------------------------------------
(* The two worker pools: run_checks_in_parallel's and _check_propagation's. *)

\* Either a call of run_checks_in_parallel or a call of _check_propagation.
InitPools == Init \/ InitProp

\* The queries of the propagation call, none when no call is in progress.
PoolQueries == IF dns.pc = "idle" THEN {} ELSE 1..Len(dns.queries)

NextPools ==
    \/ Next
    \/ PropSubmit
    \/ PropBeginLoop
    \/ \E i \in PoolQueries : QueryStart(i)
    \/ \E i \in PoolQueries, response \in Responses : QueryFinish(i, response)
    \/ \E i \in PoolQueries : PropCollect(i)
    \/ PropReturn
    \/ PropRaise

SpecPools == InitPools /\ [][NextPools]_vars

\* The queries of the propagation check that wait for a worker.
Queued(d) == {k \in 1..Len(d.queries) : d.queries[k].state = "pending"}

\* The submitted checks of the runner that wait for a worker.
Pending == {i \in 1..N : futures[i].state = "pending"}

\* C21: at most max_workers checks of run_checks_in_parallel are executing
\* at the same time, and at most max_workers resolver queries of
\* _check_propagation are in flight at the same time.
C21_BoundedConcurrency ==
    /\ pc # "idle" => Cardinality(Running) <= max_workers
    /\ dns.pc # "idle" => Cardinality(InFlight(dns)) <= dns.config.max_workers

\* Every worker of the runner's pool is busy and a submitted check waits.
C21_Witness ==
    /\ pc # "idle"
    /\ N > max_workers
    /\ Cardinality(Running) = max_workers
    /\ Pending # {}

\* Every worker of the propagation pool is busy and a submitted query waits.
C21_WitnessPropagation ==
    /\ dns.pc # "idle"
    /\ Cardinality(InFlight(dns)) = dns.config.max_workers
    /\ Queued(dns) # {}


\* What the entry of resolver i has to say, told from the resolver and the
\* reply its query received: the resolver's IP, success with the addresses
\* answered, or error with none.
EntryOf(i) ==
    LET response == dns.queries[i].response IN
    [resolver |-> dns.resolvers[i].ip,
     status   |-> IF response.kind = "answer" THEN "success" ELSE "error",
     records  |-> IF response.kind = "answer"
                  THEN [k \in 1..Len(response.answers) |-> response.answers[k].address]
                  ELSE <<>>]

\* The part of a result entry that EntryOf tells.
Told(entry) ==
    [resolver |-> entry.resolver, status |-> entry.status, records |-> entry.records]

\* The entries collected are, one for one, those of the resolvers collected.
EntriesPaired ==
    /\ Len(dns.results) = Cardinality(dns.collected)
    /\ \A i \in dns.collected :
          Cardinality({k \in 1..Len(dns.results) : Told(dns.results[k]) = EntryOf(i)})
             = Cardinality({j \in dns.collected : EntryOf(j) = EntryOf(i)})

\* Every pair collected holds one of the caller's descriptors with the
\* outcome of that descriptor's own plugin_type and config, and no descriptor
\* is in two pairs.
PairsPaired ==
    /\ \A k \in 1..Len(results) : IsolatedPair(results[k])
    /\ \A i \in 1..N : Occurrences(i) <= 1
    /\ \A k1, k2 \in 1..Len(results) :
          results[k1].check = results[k2].check => k1 = k2

\* C22: in every order of completion, each pair of run_checks_in_parallel
\* holds a caller's descriptor with the result of that descriptor's own
\* check, each entry of _check_propagation names the resolver whose reply it
\* reports, and no step changes the caller's descriptors or resolver list.
C22_PairedWithOriginator ==
    /\ [](pc # "idle" => PairsPaired)
    /\ [](dns.pc # "idle" => EntriesPaired)
    /\ [][/\ check_configs' = check_configs
          /\ dns.pc # "idle" => dns.config' = dns.config]_vars

\* The second of two checks with different outcomes was collected first, and
\* the call has returned.
C22_Witness ==
    /\ pc = "returned"
    /\ N = 2
    /\ returned[1].check = check_configs[2]
    /\ returned[2].check = check_configs[1]
    /\ returned[1].result # returned[2].result

\* The second of two resolvers with different IPs and different replies was
\* collected first.
C22_WitnessPropagation ==
    /\ dns.pc = "prop_returned"
    /\ Len(dns.results) = 2
    /\ dns.results[1].resolver = dns.resolvers[2].ip
    /\ dns.results[2].resolver = dns.resolvers[1].ip
    /\ dns.results[1].resolver # dns.results[2].resolver
    /\ dns.results[1].status # dns.results[2].status


----------------------------------------------------------------------------
(* Properties of DNSRecordPlugin.run_check.                                *)

\* The replies with which the base record lookup fails.
FailedLookups == {r \in Responses : r.kind \in {"NXDOMAIN", "NoAnswer", "Timeout"}}

\* No sub-check of the DNS check has been started.
NoSubCheck(d) ==
    /\ d.authoritative_result = NotSet
    /\ d.dnssec_result = NotSet
    /\ d.propagation_result = NotSet
    /\ d.queries = <<>>

\* C23: a base lookup that ends in NXDOMAIN, NoAnswer or a timeout ends the
\* check at once with an error result, whatever check_propagation,
\* check_authoritative and check_dnssec are set to: no sub-check has been
\* started, and nothing runs after the result.
C23_FailedLookupStaysError ==
    [][/\ dns.pc # "done"
       /\ \A response \in FailedLookups :
             Lookup(response) =>
                /\ dns'.pc = "done"
                /\ dns'.result.res.status = STATUS_ERROR
                /\ dns'.result.res.raw_data.error = response.kind
                /\ NoSubCheck(dns')]_vars

\* The base lookup of a check with all three sub-checks requested and two
\* resolvers configured has ended in NXDOMAIN.
C23_Witness ==
    /\ dns.pc = "done"
    /\ dns.config.check_propagation
    /\ dns.config.check_authoritative
    /\ dns.config.check_dnssec
    /\ Len(dns.config.resolvers) = 2
    /\ "error" \in DOMAIN dns.result.res.raw_data
    /\ dns.result.res.raw_data.error = "NXDOMAIN"
    /\ dns.result.res.status = STATUS_ERROR


\* A check that went through the status composition with a propagation
\* sub-result has returned.
Merged == dns.pc = "done" /\ dns.trail # <<>> /\ dns.propagation_result.set

\* C24: the propagation block leaves the overall status at error when the
\* propagation status is error; with a propagation status of warning it
\* turns success into warning and leaves warning and error as they were; with
\* success it leaves the status as it was; and the status so merged is the
\* status of the result returned.
C24_PropagationMerge ==
    Merged =>
        LET before == dns.trail[4]
            after  == dns.trail[5]
            prop   == dns.propagation_result.status IN
        /\ dns.result.res.status = after
        /\ prop = STATUS_ERROR => after = STATUS_ERROR
        /\ prop = STATUS_WARNING =>
              after = (IF before = STATUS_SUCCESS THEN STATUS_WARNING ELSE before)
        /\ prop = STATUS_SUCCESS => after = before

\* A propagation sub-result of warning met an overall status of error, which
\* it left in place.
C24_Witness ==
    /\ Merged
    /\ dns.propagation_result.status = STATUS_WARNING
    /\ dns.trail[4] = STATUS_ERROR
    /\ dns.result.res.status = STATUS_ERROR


----------------------------------------------------------------------------
(* Properties of the dispatchers running side by side.                     *)

\* The calls that hold a plugin instance.
Holders == {i \in 1..MaxChecks : tasks.t[i].plugin # 0}

\* C25: every call of a dispatcher that gets a plugin holds an instance that
\* was constructed for it alone: no two calls, whether they overlap or one
\* follows the other, hold the same instance, and validate_config and
\* run_check are called on the call's own instance only.
C25_NoSharedInstance ==
    /\ \A i, j \in Holders : i # j => tasks.t[i].plugin # tasks.t[j].plugin
    /\ Len(tasks.heap) = Cardinality(Holders)
    /\ \A i \in 1..MaxChecks :
          \A k \in 1..Len(tasks.t[i].calls) :
             /\ tasks.t[i].plugin # 0
             /\ tasks.t[i].calls[k][2] = tasks.t[i].plugin
             /\ tasks.heap[tasks.t[i].plugin].config = tasks.t[i].config

\* Two calls with the same plugin type and configuration are both between
\* validate_config and run_check.
C25_Witness ==
    /\ tasks.t[1].plugin_type = tasks.t[2].plugin_type
    /\ tasks.t[1].config = tasks.t[2].config
    /\ tasks.t[1].pc = "run_check"
    /\ tasks.t[2].pc = "run_check"
    /\ tasks.t[1].plugin # tasks.t[2].plugin

\* The calls that have returned.
DoneTasks == {i \in 1..MaxChecks : tasks.t[i].pc = "done"}

\* The two results agree in status, message, response_time and raw_data.
SameResult(r1, r2) ==
    /\ r1.kind = "result"
    /\ r2.kind = "result"
    /\ r1.res.status = r2.res.status
    /\ r1.res.message = r2.res.message
    /\ r1.res.response_time = r2.res.response_time
    /\ r1.res.raw_data = r2.res.raw_data

\* C28: _run_single_check and registry.run_check return results with the same
\* status, message, response_time and raw_data for the same plugin type and
\* configuration, whichever of lookup, construction, validation and
\* execution fails or succeeds.
C28_SameDispatcher ==
    /\ \A i, j \in DoneTasks :
          (/\ tasks.t[i].plugin_type = tasks.t[j].plugin_type
           /\ tasks.t[i].config = tasks.t[j].config) =>
              SameResult(tasks.t[i].outcome, tasks.t[j].outcome)
    /\ \A i \in DoneTasks :
          /\ SameResult(tasks.t[i].outcome,
                        run_check(tasks.t[i].plugin_type, tasks.t[i].config))
          /\ SameResult(tasks.t[i].outcome,
                        run_single_check(tasks.t[i].plugin_type, tasks.t[i].config))

\* A call of each dispatcher for a plugin whose run_check raises has returned.
C28_Witness ==
    /\ DoneTasks = {1, 2}
    /\ tasks.t[1].via = "run_check"
    /\ tasks.t[2].via = "_run_single_check"
    /\ tasks.t[1].plugin_type = "mock"
    /\ tasks.t[2].plugin_type = "mock"
    /\ tasks.t[1].config = "run_raises"
    /\ tasks.t[2].config = "run_raises"
    /\ tasks.t[2].outcome.res.status = STATUS_ERROR


----------------------------------------------------------------------------
(* Properties of run_check_batch's chunks.                                 *)

\* C26: run_check_batch starts the call for a chunk only when every task
\* submitted for the chunk before it has finished, hands a call's outcome on
\* only when all its tasks have finished, and at every moment at most
\* min(batch_size, max_workers) checks are executing.
C26_ChunksInSequence ==
    /\ [](batch.pc # "idle" =>
             Cardinality(Running) <= Min(batch.batch_size, batch.max_workers))
    /\ [][(BatchCall \/ BatchExtend \/ BatchRaise) =>
             (Running = {} /\ Submitted \subseteq Finished)]_vars

\* The second chunk's only check is executing after the two checks of the
\* first chunk have been returned.
C26_Witness ==
    /\ batch.pc = "in_call"
    /\ batch.i = 2
    /\ batch.batch_size = 2
    /\ batch.max_workers = 2
    /\ Len(batch.results) = 2
    /\ Cardinality(Running) = 1


----------------------------------------------------------------------------
(* Properties of _check_propagation's resolver queries.                    *)

\* The resolvers whose query ended in a fault: a failing reply, or an
\* exception of query_resolver itself.
FaultyQueries ==
    {i \in 1..Len(dns.queries) :
        \/ dns.queries[i].outcome.kind = "exception"
        \/ dns.queries[i].response.kind # "answer"}

\* C27 (as claimed): for every resolver list validate_config accepts, mixed
\* lists included, _check_propagation returns; each resolver whose query
\* ended in a fault has an error entry with match false, and the entries of
\* all resolvers are collected and counted.
C27_ResolverIsolation ==
    (dns.caller = "direct" /\ dns.pc \in {"prop_returned", "prop_raised"}) =>
        /\ dns.pc = "prop_returned"
        /\ Len(dns.results) = Len(dns.config.resolvers)
        /\ dns.propagation_result.total_count = Len(dns.config.resolvers)
        /\ \A i \in FaultyQueries :
              \E k \in 1..Len(dns.results) :
                 /\ dns.results[k].resolver = dns.config.resolvers[i].ip
                 /\ dns.results[k].status = "error"
                 /\ ~dns.results[k].match


----------------------------------------------------------------------------
(* Termination of run_checks_in_parallel.                                  *)

\* C29: a call without a timeout whose descriptors all name a plugin type
\* eventually returns; when it has returned, every task has finished and
\* there is one pair per descriptor (none for the empty list).
C29_ReturnsAfterAll ==
    /\ (timeout = "None" /\ WellFormed) ~> (pc = "returned")
    /\ []((pc = "returned" /\ timeout = "None") =>
             /\ \A i \in 1..N : futures[i].state = "finished"
             /\ Len(returned) = N)

\* A call without a timeout for more descriptors than workers has returned.
C29_Witness ==
    /\ pc = "returned"
    /\ timeout = "None"
    /\ N > max_workers
    /\ Len(returned) = N
    /\ Finished = 1..N

\* A call without a timeout for the empty list has returned the empty list.
C29_WitnessEmpty ==
    /\ pc = "returned"
    /\ timeout = "None"
    /\ N = 0
    /\ returned = <<>>


\* C30: in every propagation result 0 <= consistent_count <=
\* successful_count <= total_count and the percentage (in tenths of a
\* percent) lies between 0 and 100 percent; an entry with match true has
\* status success; and without an expected value consistent_count equals
\* successful_count.
C30_CountsOrdered ==
    (dns.pc # "idle" /\ dns.propagation_result.set) =>
        LET r == dns.propagation_result IN
        /\ 0 <= r.consistent_count
        /\ r.consistent_count <= r.successful_count
        /\ r.successful_count <= r.total_count
        /\ 0 <= r.percentage
        /\ r.percentage <= 1000
        /\ \A k \in 1..Len(r.resolvers) :
              r.resolvers[k].match => r.resolvers[k].status = "success"
        /\ ~Truthy(dns.config.expected_value) =>
              r.consistent_count = r.successful_count

\* Without an expected value, one of two resolvers answered and the other
\* failed: one consistent, one successful, two in total.
C30_Witness ==
    /\ dns.pc = "prop_returned"
    /\ ~Truthy(dns.config.expected_value)
    /\ dns.propagation_result.total_count = 2
    /\ dns.propagation_result.successful_count = 1
    /\ dns.propagation_result.consistent_count = 1
    /\ dns.propagation_result.percentage = 500

====
